---- MODULE Spec2Model ----
(***************************************************************************)
(* Benchmark aggregation engine of explainaboard_web (BenchmarkDBUtils):   *)
(* the view aggregator (aggregate_view), the pivot formatter               *)
(* (dataframe_to_table), the long-table builder                            *)
(* (generate_dataframe_from_sys_infos), the trend generator                *)
(* (generate_plots) alone and as concurrent requests sharing the cached    *)
(* plot file, the Gini coefficient (_gini) and the resolution of a         *)
(* benchmark's parent chain (find_config_by_id).                           *)
(*                                                                         *)
(* A pandas table is a record [cols, rows]: cols is the ordered sequence   *)
(* of column names and rows the sequence of rows, each a function from     *)
(* column name to cell.  A cell is a string S(x), a number N(n), NaN/None  *)
(* or an infinity.  Numbers are binary floating-point values with          *)
(* MantissaBits significant bits and smallest positive value 1; every      *)
(* arithmetic result is rounded to nearest, ties to even, as IEEE-754      *)
(* arithmetic does at 53 bits.                                             *)
(***************************************************************************)
EXTENDS Integers, Sequences, FiniteSets, TLC

VARIABLES
    \* ---- aggregate_view
    input_df,      \* the table handed to aggregate_view
    view_spec,     \* view_spec.operations
    by_creator,    \* the by_creator argument
    output_df,     \* the working table
    prev_df,       \* the working table before the last operation ran
    op_i,          \* number of operations already executed
    agg_pc,        \* "entry" | "loop" | "returned" | "raised"
    agg_err,       \* "" or the exception's class
    \* ---- dataframe_to_table
    tbl_df,        \* the table handed to dataframe_to_table
    tbl_pc,        \* "off" | "entry" | "fill" | "sort" | "done"
    tbl_k,         \* number of input rows already written to the matrix
    tbl_scores,    \* the dense matrix: row label -> column label -> score
    tbl_out,       \* the BenchmarkTableData returned
    \* ---- generate_dataframe_from_sys_infos
    lt_config,     \* benchmark_config: [datasets, metrics]
    lt_systems,    \* the systems argument
    lt_pc,         \* "off" | "entry" | "lookup" | "rows" | "returned" | "raised"
    lt_configs,    \* dataset_configs
    lt_kept,       \* systems after the dataset filter
    lt_metas,      \* dataset_metadatas: TRUE where the lookup found the dataset
    lt_si,         \* position in system_dataset_results (system names)
    lt_di,         \* position in dataset_configs
    lt_rows,       \* the rows appended to df_input so far
    lt_err,        \* "" or the exception's class
    \* ---- generate_plots
    pl_config,     \* the benchmark config found by find_config_by_id
    pl_sys_infos,  \* sys_infos: what load_sys_infos returned
    pl_metas,      \* what the dataset lookup answers for each dataset config
    pl_pc,         \* "off" | "entry" | "dates" | "views" | "record" | "returned" | "raised"
    pl_dates,      \* unique_dates
    pl_di,         \* number of dates already replayed
    pl_orig,       \* orig_df of the date being replayed (or the builder's exception)
    pl_dfs,        \* system_dfs of the date being replayed
    pl_json,       \* json_dict: series name -> sequence of <<date, score>>
    pl_cache,      \* the cached plot file: <<>> (no file) or <<payload>>
    pl_out,        \* <<>> or <<the mapping returned to the caller>>
    pl_err,        \* "" or the exception's class
    \* ---- _gini
    gi_df,         \* the df argument, then the selected columns
    gi_numeric,    \* the numeric_only argument
    gi_pc,         \* "off" | "entry" | "cols" | "returned" | "raised"
    gi_data,       \* data and index: <<column, coefficient>> per column done
    \* ---- find_config_by_id
    fc_store,      \* the benchmark collection: _id -> document
    fc_id,         \* the benchmark_id argument of the outermost call
    fc_include,    \* its include_preferred_username argument
    fc_stack,      \* the frames of find_config_by_id, the innermost last
    fc_ret,        \* <<>> or <<the config the last call returned>>
    fc_lookups,    \* number of find_one_by_id calls so far
    fc_pc,         \* "off" | "running" | "returned" | "aborted" | "raised"
    fc_out,        \* <<>> or <<the config returned to the caller>>
    \* ---- concurrent generate_plots requests for one benchmark
    rc_config,     \* the benchmark config found by find_config_by_id
    rc_sys_infos,  \* the systems of the store (the snapshot)
    rc_metas,      \* the dataset store (the snapshot)
    rc_outcomes,   \* every outcome the replay of the snapshot's dates may have
    rc_file,       \* the cached plot file: exists, and its two halves
    rc_fresh,      \* the file was modified less than one second ago
    rc_req         \* request -> [pc, json, out, err]

aggVars == <<input_df, view_spec, by_creator, output_df, prev_df, op_i, agg_pc, agg_err>>
tblVars == <<tbl_df, tbl_pc, tbl_k, tbl_scores, tbl_out>>
ltVars == <<lt_config, lt_systems, lt_pc, lt_configs, lt_kept, lt_metas, lt_si, lt_di,
            lt_rows, lt_err>>

plVars ==
    <<pl_config, pl_sys_infos, pl_metas, pl_pc, pl_dates, pl_di, pl_orig, pl_dfs,
      pl_json, pl_cache, pl_out, pl_err>>
giVars == <<gi_df, gi_numeric, gi_pc, gi_data>>
fcVars == <<fc_store, fc_id, fc_include, fc_stack, fc_ret, fc_lookups, fc_pc, fc_out>>
rcVars == <<rc_config, rc_sys_infos, rc_metas, rc_outcomes, rc_file, rc_fresh, rc_req>>
moreVars == <<giVars, fcVars, rcVars>>
vars == <<aggVars, tblVars, ltVars, plVars, moreVars>>

-----------------------------------------------------------------------------
\* Bounds of the model.

MaxOps == 2          \* longest arbitrary operation list of a view
MaxRepeat == 3       \* longest run of one repeated operation in a view
MantissaBits == 3    \* significant bits of the floating-point format
MaxTableRows == 3    \* most rows of a table handed to dataframe_to_table
MaxSystems == 2      \* most systems handed to generate_dataframe_from_sys_infos
MaxSubmissions == 3  \* most systems of an arbitrary submission history
MaxGiniRows == 3     \* most rows of a table handed to _gini
RecursionLimit == 4  \* frames of find_config_by_id the interpreter's stack holds
MaxRequests == 2     \* concurrent generate_plots requests for one benchmark

-----------------------------------------------------------------------------
\* Cells.

S(x) == [str |-> x]
N(n) == [num |-> n]
NaN == [nan |-> TRUE]
Inf(sign) == [inf |-> sign]

IsStr(c) == DOMAIN c = {"str"}
IsNum(c) == DOMAIN c = {"num"}
IsNull(c) == DOMAIN c = {"nan"}
IsInf(c) == DOMAIN c = {"inf"}

Abs(n) == IF n < 0 THEN -n ELSE n

RECURSIVE BitLen(_)
BitLen(n) == IF n = 0 THEN 0 ELSE 1 + BitLen(n \div 2)

\* Round the exact integer n to the nearest value with MantissaBits
\* significant bits, ties to the even mantissa.
FRound(n) ==
    LET a == Abs(n)
        e == BitLen(a) - MantissaBits
    IN  IF e <= 0 THEN n
        ELSE LET q == 2 ^ e
                 lo == (a \div q) * q
                 r == a - lo
                 pick == IF 2 * r < q THEN lo
                         ELSE IF 2 * r > q THEN lo + q
                         ELSE IF (lo \div q) % 2 = 0 THEN lo ELSE lo + q
             IN  IF n < 0 THEN -pick ELSE pick

\* Round the exact quotient a / b (b # 0) to the nearest representable value.
FRoundDiv(a, b) ==
    LET sgn == IF (a < 0) # (b < 0) THEN -1 ELSE 1
        x == Abs(a)
        y == Abs(b)
        q == x \div y
        r == x - q * y
        n == IF 2 * r < y THEN q
             ELSE IF 2 * r > y THEN q + 1
             ELSE IF q % 2 = 0 THEN q ELSE q + 1
    IN  FRound(sgn * n)

Sign(n) == IF n < 0 THEN -1 ELSE 1

\* float subtraction a - b
FSub(a, b) ==
    IF IsNull(a) \/ IsNull(b) THEN NaN
    ELSE IF IsInf(a) /\ IsInf(b) THEN (IF a.inf = b.inf THEN NaN ELSE a)
    ELSE IF IsInf(a) THEN a
    ELSE IF IsInf(b) THEN Inf(-b.inf)
    ELSE N(FRound(a.num - b.num))

\* float addition a + b
FAdd(a, b) ==
    IF IsNull(a) \/ IsNull(b) THEN NaN
    ELSE IF IsInf(a) /\ IsInf(b) THEN (IF a.inf = b.inf THEN a ELSE NaN)
    ELSE IF IsInf(a) THEN a
    ELSE IF IsInf(b) THEN b
    ELSE N(FRound(a.num + b.num))

\* float multiplication a * b
FMul(a, b) ==
    IF IsNull(a) \/ IsNull(b) THEN NaN
    ELSE IF IsInf(a) /\ IsInf(b) THEN Inf(a.inf * b.inf)
    ELSE IF IsInf(a) THEN (IF b.num = 0 THEN NaN ELSE Inf(a.inf * Sign(b.num)))
    ELSE IF IsInf(b) THEN (IF a.num = 0 THEN NaN ELSE Inf(b.inf * Sign(a.num)))
    ELSE N(FRound(a.num * b.num))

\* float division a / b (numpy: x/0 is inf, 0/0 is nan, no exception)
FDiv(a, b) ==
    IF IsNull(a) \/ IsNull(b) THEN NaN
    ELSE IF IsInf(a) /\ IsInf(b) THEN NaN
    ELSE IF IsInf(a) THEN Inf(a.inf * Sign(b.num))
    ELSE IF IsInf(b) THEN N(0)
    ELSE IF b.num = 0 THEN (IF a.num = 0 THEN NaN ELSE Inf(Sign(a.num)))
    ELSE N(FRoundDiv(a.num, b.num))

\* a < b on non-null numeric cells
FLess(a, b) ==
    IF IsNull(a) \/ IsNull(b) THEN FALSE
    ELSE IF IsInf(a) THEN a.inf = -1 /\ ~(IsInf(b) /\ b.inf = -1)
    ELSE IF IsInf(b) THEN b.inf = 1
    ELSE a.num < b.num

FAbs(a) ==
    IF IsNull(a) THEN NaN ELSE IF IsInf(a) THEN Inf(1) ELSE N(Abs(a.num))

-----------------------------------------------------------------------------
\* Registries and column types.

\* BenchmarkDBUtils._DEFAULT_SETS["all_lang"]: the language codes of ALL_LANG.
ALL_LANG == <<"de", "en", "fr">>

\* BenchmarkDBUtils._SPECIAL_WEIGHT_MAPS["pop_weight"]: language -> weight.
POP_WEIGHT == [en |-> 2, fr |-> 1]

\* Columns of dtype object (strings); every other column is numeric.
ObjectCols ==
    {"system_name", "dataset_name", "sub_dataset", "dataset_split", "creator",
     "source_language", "target_language", "split", "metric"}

\* Python's order on the strings of the model (upper case before lower case).
StrRank ==
    [Overall |-> 0, acc |-> 1, d1 |-> 2, d2 |-> 3, de |-> 4, dev |-> 5,
     en |-> 6, eng |-> 7, f1 |-> 8, fr |-> 9, sysA |-> 10, sysB |-> 11,
     test |-> 12, u1 |-> 13, u2 |-> 14]

\* Order of group keys after groupby(sort=True): numbers before strings.
CellLess(a, b) ==
    IF IsStr(a) /\ IsStr(b) THEN StrRank[a.str] < StrRank[b.str]
    ELSE IF IsStr(a) THEN FALSE
    ELSE IF IsStr(b) THEN TRUE
    ELSE FLess(a, b)

-----------------------------------------------------------------------------
\* Tables.

EmptyFrame == [cols |-> <<>>, rows |-> <<>>]

ColSet(df) == {df.cols[i] : i \in 1..Len(df.cols)}
HasCol(df, c) == c \in ColSet(df)
IsEmpty(df) == Len(df.rows) = 0 \/ Len(df.cols) = 0
ColValues(df, c) == [i \in 1..Len(df.rows) |-> df.rows[i][c]]

NumericCols(df) == SelectSeq(df.cols, LAMBDA c : c \notin ObjectCols)
ObjectColsOf(df) == SelectSeq(df.cols, LAMBDA c : c \in ObjectCols)

\* df.isnull().values.any()
AnyNull(df) ==
    \E i \in 1..Len(df.rows) : \E c \in ColSet(df) : IsNull(df.rows[i][c])

\* df.fillna(0)
FillNa0(df) ==
    [df EXCEPT !.rows =
        [i \in 1..Len(df.rows) |->
            [c \in ColSet(df) |->
                IF IsNull(df.rows[i][c]) THEN N(0) ELSE df.rows[i][c]]]]

\* the rows of df restricted to the columns cs (a sequence)
Project(df, cs) ==
    [cols |-> cs,
     rows |-> [i \in 1..Len(df.rows) |->
                  [c \in {cs[k] : k \in 1..Len(cs)} |-> df.rows[i][c]]]]

-----------------------------------------------------------------------------
\* Numeric reductions of one column (a sequence of cells), skipping NaN as
\* pandas' mean/sum/max/min do.

DropNull(xs) == SelectSeq(xs, LAMBDA c : ~IsNull(c))

RECURSIVE SumCells(_)
SumCells(xs) ==
    IF Len(xs) = 0 THEN N(0)
    ELSE FAdd(SumCells(SubSeq(xs, 1, Len(xs) - 1)), xs[Len(xs)])

RECURSIVE MaxCells(_)
MaxCells(xs) ==
    IF Len(xs) = 0 THEN NaN
    ELSE IF Len(xs) = 1 THEN xs[1]
    ELSE LET m == MaxCells(SubSeq(xs, 1, Len(xs) - 1))
         IN  IF FLess(m, xs[Len(xs)]) THEN xs[Len(xs)] ELSE m

RECURSIVE MinCells(_)
MinCells(xs) ==
    IF Len(xs) = 0 THEN NaN
    ELSE IF Len(xs) = 1 THEN xs[1]
    ELSE LET m == MinCells(SubSeq(xs, 1, Len(xs) - 1))
         IN  IF FLess(xs[Len(xs)], m) THEN xs[Len(xs)] ELSE m

MeanCells(xs) == FDiv(SumCells(xs), N(Len(xs)))

Reduce(op, xs) ==
    LET v == DropNull(xs)
    IN  IF op = "mean" THEN MeanCells(v)
        ELSE IF op = "sum" THEN SumCells(v)
        ELSE IF op = "max" THEN MaxCells(v)
        ELSE MinCells(v)

\* Faulty variant: the pairs are added instead of subtracted
RECURSIVE PairSums(_)
PairSums(xs) ==
    IF Len(xs) <= 1 THEN N(0)
    ELSE LET head == SubSeq(xs, 1, Len(xs) - 1)
             last == xs[Len(xs)]
             sums == [i \in 1..Len(head) |-> FAbs(FAdd(head[i], last))]
         IN  FAdd(PairSums(head), SumCells(sums))

\* sum over i < j of |x_i - x_j| (the order of a sorted x does not change it)
RECURSIVE PairDiffs(_)
PairDiffs(xs) ==
    IF Len(xs) <= 1 THEN N(0)
    ELSE LET head == SubSeq(xs, 1, Len(xs) - 1)
             last == xs[Len(xs)]
             diffs == [i \in 1..Len(head) |-> FAbs(FSub(head[i], last))]
         IN  FAdd(PairDiffs(head), SumCells(diffs))

\* Faulty variant: a zero denominator is special-cased to a coefficient of 0
GiniCellsGuarded(xs) ==
    IF FMul(N(Len(xs) * Len(xs)), MeanCells(xs)) = N(0) THEN N(0)
    ELSE FDiv(PairDiffs(xs), FMul(N(Len(xs) * Len(xs)), MeanCells(xs)))

\* _gini of one column: total / (len(x) ** 2 * np.mean(x)); np.mean does
\* not skip NaN.
GiniCells(xs) ==
    FDiv(PairDiffs(xs), FMul(N(Len(xs) * Len(xs)), MeanCells(xs)))

-----------------------------------------------------------------------------
\* aggregate_view: one operation of the loop.

\* group_by of the operation, with the implicit identity column in front
\* unless skip_group_system is set.
GroupKey(operation, byc) ==
    IF operation.skip_group_system THEN operation.group_by
    ELSE IF byc THEN <<"creator">> \o operation.group_by
    ELSE <<"system_name">> \o operation.group_by

SeqSet(s) == {s[i] : i \in 1..Len(s)}

KeyOf(row, gb) == [k \in 1..Len(gb) |-> row[gb[k]]]

KeyLess(a, b) ==
    \E k \in 1..Len(a) :
        /\ \A j \in 1..(k - 1) : a[j] = b[j]
        /\ CellLess(a[k], b[k])

RECURSIVE SortKeys(_)
SortKeys(ks) ==
    IF ks = {} THEN <<>>
    ELSE LET m == CHOOSE x \in ks : \A y \in ks \ {x} : KeyLess(x, y)
         IN  <<m>> \o SortKeys(ks \ {m})

\* df.groupby(gb).<op>(numeric_only=True) followed by reset_index(): one row
\* per distinct key (rows with a NaN key are dropped), keys sorted, the key
\* columns in front of the reduced numeric columns.
GroupReduce(df, gb, op) ==
    LET kept == SelectSeq(df.rows,
                    LAMBDA r : \A k \in 1..Len(gb) : ~IsNull(r[gb[k]]))
        keys == SortKeys({KeyOf(kept[i], gb) : i \in 1..Len(kept)})
        nums == SelectSeq(NumericCols(df), LAMBDA c : c \notin SeqSet(gb))
        cs == gb \o nums
        members(key) == SelectSeq(kept, LAMBDA r : KeyOf(r, gb) = key)
        keyPos(c) == CHOOSE k \in 1..Len(gb) : gb[k] = c
    IN  [cols |-> cs,
         rows |-> [g \in 1..Len(keys) |->
                     [c \in SeqSet(cs) |->
                         IF c \in SeqSet(gb) THEN keys[g][keyPos(c)]
                         ELSE Reduce(op, [i \in 1..Len(members(keys[g])) |->
                                             members(keys[g])[i][c]])]]]

\* df.<op>(numeric_only=True) or _gini(df, numeric_only=True): a Series over
\* the numeric columns, kept here as a one-row table.
SeriesReduce(df, op) ==
    LET nums == NumericCols(df)
    IN  [cols |-> nums,
         rows |-> << [c \in SeqSet(nums) |->
                        IF op = "gini" THEN GiniCells(ColValues(df, c))
                        ELSE Reduce(op, ColValues(df, c))] >>]

\* The result of one branch of the loop body: the table, its shape
\* ("series", "grouped": the group keys are the index, "flat": the default
\* index) and the exception raised, if any.
Ok(df, shape) == [df |-> df, shape |-> shape, err |-> ""]
Raise(kind) == [df |-> EmptyFrame, shape |-> "flat", err |-> kind]

\* op in {"mean", "sum", "max", "min", "gini"}
OpReduce(df, operation, byc) ==
    LET gb == GroupKey(operation, byc)
    IN  IF Len(gb) > 0
        THEN IF ~(SeqSet(gb) \subseteq ColSet(df)) THEN Raise("KeyError")
             \* _gini receives the DataFrameGroupBy, which has no select_dtypes
             ELSE IF operation.op = "gini" THEN Raise("AttributeError")
             ELSE Ok(GroupReduce(df, gb, operation.op), "grouped")
        ELSE Ok(SeriesReduce(df, operation.op), "series")

\* the weight column, translated through the weight map (unmapped -> 0)
WeightOf(cell, weight_map) ==
    IF weight_map = "" THEN cell
    ELSE IF IsStr(cell) /\ cell.str \in DOMAIN POP_WEIGHT
         THEN N(POP_WEIGHT[cell.str])
         ELSE N(0)

\* op in {"multiply", "weighted_sum"} (weight_logit_multiplier unset)
OpWeight(df, operation, byc) ==
    IF ~HasCol(df, operation.weight) THEN Raise("KeyError")
    ELSE IF \E i \in 1..Len(df.rows) :
                IsStr(WeightOf(df.rows[i][operation.weight], operation.weight_map))
         THEN Raise("TypeError")
    ELSE LET scaled ==
                [df EXCEPT !.rows =
                    [i \in 1..Len(df.rows) |->
                        [df.rows[i] EXCEPT !["score"] =
                            FMul(@, WeightOf(df.rows[i][operation.weight],
                                             operation.weight_map))]]]
             gb == GroupKey(operation, byc)
         IN  IF operation.op = "multiply" THEN Ok(scaled, "flat")
             ELSE IF Len(gb) > 0
                  THEN IF ~(SeqSet(gb) \subseteq ColSet(df)) THEN Raise("KeyError")
                       ELSE Ok(GroupReduce(scaled, gb, "sum"), "grouped")
                  ELSE Ok(SeriesReduce(scaled, "sum"), "series")

\* Faulty variant: every default value is appended, present or not
MissingDefaultsAll(df, column) == ALL_LANG

\* the default values not already present in the column, in registry order
MissingDefaults(df, column) ==
    SelectSeq(ALL_LANG,
        LAMBDA lang : \A i \in 1..Len(df.rows) : df.rows[i][column] # S(lang))

\* op = "add_default": pd.concat([output_df, temp_df], ignore_index=True)
OpAddDefault(df, operation) ==
    IF ~HasCol(df, operation.column) THEN Raise("KeyError")
    ELSE LET languages == MissingDefaults(df, operation.column)
             temp == [k \in 1..Len(languages) |->
                        [c \in ColSet(df) |->
                            IF c = operation.column THEN S(languages[k])
                            ELSE IF c = "score" THEN N(0)
                            ELSE NaN]]
         IN  Ok([df EXCEPT !.rows = @ \o temp], "flat")

\* Faulty variant: the operands swapped: score -> score - num
OpSubtractSwapped(df, operation) ==
    Ok([df EXCEPT !.rows =
           [i \in 1..Len(df.rows) |->
               [df.rows[i] EXCEPT !["score"] = FSub(@, N(operation.num))]]],
       "flat")

\* op = "subtract": score -> num - score
OpSubtract(df, operation) ==
    Ok([df EXCEPT !.rows =
           [i \in 1..Len(df.rows) |->
               [df.rows[i] EXCEPT !["score"] = FSub(N(operation.num), @)]]],
       "flat")

\* Faulty variant: NaN cells are left in place
SanitizeNever(df) == df

\* if output_df.isnull().values.any(): output_df = output_df.fillna(0)
Sanitize(df) == IF AnyNull(df) THEN FillNa0(df) ELSE df

\* the name reset_index() gives the column holding an unnamed index
IndexName(df) ==
    IF ~HasCol(df, "index") THEN "index"
    ELSE IF ~HasCol(df, "level_0") THEN "level_0"
    ELSE ""

\* output_df.reset_index(inplace=True) on a table with the default index
ResetIndex(df) ==
    LET name == IndexName(df)
    IN  [cols |-> <<name>> \o df.cols,
         rows |-> [i \in 1..Len(df.rows) |->
                     [c \in ColSet(df) \cup {name} |->
                         IF c = name THEN N(i - 1) ELSE df.rows[i][c]]]]

\* Faulty variant: the other identity column is stamped
StampOverallSwapped(df, byc) ==
    LET id == IF byc THEN "system_name" ELSE "creator"
    IN  [cols |-> df.cols \o <<id>>,
         rows |-> [i \in 1..Len(df.rows) |->
                     [c \in ColSet(df) \cup {id} |->
                         IF c = id THEN S("Overall") ELSE df.rows[i][c]]]]

\* output_df.to_frame().transpose(), then the identity column is stamped
StampOverall(df, byc) ==
    LET id == IF byc THEN "creator" ELSE "system_name"
    IN  [cols |-> df.cols \o <<id>>,
         rows |-> [i \in 1..Len(df.rows) |->
                     [c \in ColSet(df) \cup {id} |->
                         IF c = id THEN S("Overall") ELSE df.rows[i][c]]]]

\* the code after the if/elif chain: NaN replacement, then the shape is
\* restored
Restore(res, byc) ==
    IF res.err # "" THEN res
    ELSE LET clean == Sanitize(res.df)
         IN  IF res.shape = "series" THEN Ok(StampOverall(clean, byc), "flat")
             ELSE IF res.shape = "grouped" THEN Ok(clean, "flat")
             ELSE IF IndexName(clean) = "" THEN Raise("ValueError")
             ELSE Ok(ResetIndex(clean), "flat")

ReduceOps == {"mean", "sum", "max", "min", "gini"}
WeightOps == {"multiply", "weighted_sum"}
SupportedOps == ReduceOps \cup WeightOps \cup {"add_default", "subtract"}

\* Faulty variant: an unknown op is skipped instead of raising
ApplyOpSkipUnknown(df, operation, byc) ==
    IF operation.op \in ReduceOps THEN Restore(OpReduce(df, operation, byc), byc)
    ELSE IF operation.op \in WeightOps THEN Restore(OpWeight(df, operation, byc), byc)
    ELSE IF operation.op = "add_default" THEN OpAddDefault(df, operation)
    ELSE IF operation.op = "subtract" THEN Restore(OpSubtract(df, operation), byc)
    ELSE Ok(df, "flat")

\* one iteration of "for operation in view_spec.operations"
ApplyOp(df, operation, byc) ==
    IF operation.op \in ReduceOps THEN Restore(OpReduce(df, operation, byc), byc)
    ELSE IF operation.op \in WeightOps THEN Restore(OpWeight(df, operation, byc), byc)
    ELSE IF operation.op = "add_default" THEN OpAddDefault(df, operation)
    ELSE IF operation.op = "subtract" THEN Restore(OpSubtract(df, operation), byc)
    ELSE Raise("ValueError")

\* Faulty variant: no column is dropped
PruneNothing(df) == df

\* "Remove all numerical columns other than score"
PruneColumns(df) == Project(df, ObjectColsOf(df) \o <<"score">>)

-----------------------------------------------------------------------------
\* dataframe_to_table.

\* The columns of a table handed to the formatter: the row axis, two
\* label columns and score.
TableCols == <<"system_name", "source_language", "metric", "score">>

\* Python's order on the column names.
ColRank == [creator |-> 0, metric |-> 1, metric_weight |-> 2, score |-> 3,
            source_language |-> 4, system_name |-> 5]

\* elem_names: the columns other than score and the row column
ElemNames(df, col_name) ==
    SelectSeq(df.cols, LAMBDA c : c \notin {"score", col_name})

\* _col_name: "score" joined with one "elem=value" token per element whose
\* value is a non-empty string; a label is kept as the sequence of its lines.
ColName(elem_names, df_entry) ==
    LET keep == SelectSeq(elem_names,
                    LAMBDA e : IsStr(df_entry[e]) /\ df_entry[e].str # "")
    IN  << <<"score">> >> \o [k \in 1..Len(keep) |-> <<keep[k], df_entry[keep[k]].str>>]

\* Python's order on two "elem=value" lines
TokenLess(a, b) ==
    \/ ColRank[a[1]] < ColRank[b[1]]
    \/ a[1] = b[1] /\ StrRank[a[2]] < StrRank[b[2]]

\* Python's order on two labels (joined strings): the first differing line
\* decides, a proper prefix comes first.
LabelLess(a, b) ==
    \/ Len(a) < Len(b) /\ \A k \in 2..Len(a) : a[k] = b[k]
    \/ \E k \in 2..Len(a) :
          /\ k <= Len(b)
          /\ \A j \in 2..(k - 1) : a[j] = b[j]
          /\ a[k] # b[k]
          /\ TokenLess(a[k], b[k])

\* sorted(...) of a set of strings
RECURSIVE SortStrs(_)
SortStrs(xs) ==
    IF xs = {} THEN <<>>
    ELSE LET m == CHOOSE x \in xs : \A y \in xs \ {x} : StrRank[x] < StrRank[y]
         IN  <<m>> \o SortStrs(xs \ {m})

\* sorted(...) of a set of labels
RECURSIVE SortLabels(_)
SortLabels(xs) ==
    IF xs = {} THEN <<>>
    ELSE LET m == CHOOSE x \in xs : \A y \in xs \ {x} : LabelLess(x, y)
         IN  <<m>> \o SortLabels(xs \ {m})

\* system_idx = sorted(list(set(input_df[col_name])))
SystemIdx(df, col_name) ==
    SortStrs({df.rows[i][col_name].str : i \in 1..Len(df.rows)})

RowColNames(df, col_name) ==
    [i \in 1..Len(df.rows) |-> ColName(ElemNames(df, col_name), df.rows[i])]

\* column_idx = sorted(list(set(row_col_names)))
ColumnIdx(df, col_name) ==
    SortLabels(SeqSet(RowColNames(df, col_name)))

\* Faulty variant: rows sorted ascending
InOrderAscending(a, b) == ~FLess(b, a)

\* two consecutive rows of sort_values(..., ascending=False): the earlier
\* row's value is not below the later one's
InOrder(a, b) == ~FLess(a, b)

\* the orders of the row labels sort_values may return for the first column
SortedOrders(idx, scores, first) ==
    {p \in [1..Len(idx) -> SeqSet(idx)] :
        /\ \A i, j \in 1..Len(idx) : i # j => p[i] # p[j]
        /\ \A i \in 1..(Len(idx) - 1) :
               InOrder(scores[p[i]][first], scores[p[i + 1]][first])}

EmptyTableData == [system_names |-> <<>>, column_names |-> <<>>, scores |-> << <<>> >>]

AggOff ==
    /\ input_df = EmptyFrame
    /\ view_spec = <<>>
    /\ by_creator = FALSE
    /\ output_df = EmptyFrame
    /\ prev_df = EmptyFrame
    /\ op_i = 0
    /\ agg_pc = "off"
    /\ agg_err = ""

LtOff ==
    /\ lt_config = [datasets |-> <<>>, metrics |-> [set |-> FALSE, list |-> <<>>],
                    views |-> <<>>]
    /\ lt_systems = <<>>
    /\ lt_pc = "off"
    /\ lt_configs = <<>>
    /\ lt_kept = <<>>
    /\ lt_metas = <<>>
    /\ lt_si = 0
    /\ lt_di = 0
    /\ lt_rows = <<>>
    /\ lt_err = ""

GiOff ==
    /\ gi_df = EmptyFrame
    /\ gi_numeric = FALSE
    /\ gi_pc = "off"
    /\ gi_data = <<>>

FcOff ==
    /\ fc_store = <<>>
    /\ fc_id = ""
    /\ fc_include = FALSE
    /\ fc_stack = <<>>
    /\ fc_ret = <<>>
    /\ fc_lookups = 0
    /\ fc_pc = "off"
    /\ fc_out = <<>>

RcOff ==
    /\ rc_config = <<>>
    /\ rc_sys_infos = <<>>
    /\ rc_metas = <<>>
    /\ rc_outcomes = {}
    /\ rc_file = <<>>
    /\ rc_fresh = FALSE
    /\ rc_req = <<>>

MoreOff == GiOff /\ FcOff /\ RcOff

PlOff ==
    /\ pl_config = [type |-> "", system_query |-> FALSE, datasets |-> <<>>,
                    metrics |-> [set |-> FALSE, list |-> <<>>], views |-> <<>>]
    /\ pl_sys_infos = <<>>
    /\ pl_metas = <<>>
    /\ pl_pc = "off"
    /\ pl_dates = <<>>
    /\ pl_di = 0
    /\ pl_orig = [df |-> [cols |-> <<>>, rows |-> <<>>], shape |-> "flat", err |-> ""]
    /\ pl_dfs = <<>>
    /\ pl_json = <<>>
    /\ pl_cache = <<>>
    /\ pl_out = <<>>
    /\ pl_err = ""

TblOff ==
    /\ tbl_df = EmptyFrame
    /\ tbl_pc = "off"
    /\ tbl_k = 0
    /\ tbl_scores = <<>>
    /\ tbl_out = EmptyTableData

TableLangs == {S("en"), S("fr"), N(0)}
TableScores == {1, 3}

TableRows ==
    {[c \in SeqSet(TableCols) |->
         IF c = "system_name" THEN S(sys)
         ELSE IF c = "source_language" THEN lang
         ELSE IF c = "metric" THEN S("bleu")
         ELSE N(sc)] : sys \in {"sysA", "sysB"}, lang \in TableLangs, sc \in TableScores}

TableInputs ==
    {[cols |-> TableCols, rows |-> rs] :
        rs \in UNION {[1..n -> TableRows] : n \in 0..MaxTableRows}}

InitTable ==
    /\ AggOff
    /\ LtOff
    /\ PlOff
    /\ MoreOff
    /\ tbl_df \in TableInputs
    /\ tbl_pc = "entry"
    /\ tbl_k = 0
    /\ tbl_scores = <<>>
    /\ tbl_out = EmptyTableData

\* "Terminate on empty data"
TableReturnEmpty ==
    /\ tbl_pc = "entry"
    /\ (Len(SystemIdx(tbl_df, "system_name")) = 0 \/ Len(ColumnIdx(tbl_df, "system_name")) = 0)
    /\ tbl_out' = EmptyTableData
    /\ tbl_pc' = "done"
    /\ UNCHANGED <<tbl_df, tbl_k, tbl_scores>>
    /\ UNCHANGED <<aggVars, ltVars, plVars, moreVars>>

\* scores = pd.DataFrame({k: [0.0 for _ in system_idx] for k in column_idx}, ...)
TableAllocate ==
    /\ tbl_pc = "entry"
    /\ Len(SystemIdx(tbl_df, "system_name")) # 0
    /\ Len(ColumnIdx(tbl_df, "system_name")) # 0
    /\ tbl_scores' = [r \in SeqSet(SystemIdx(tbl_df, "system_name")) |->
                         [c \in SeqSet(ColumnIdx(tbl_df, "system_name")) |-> N(0)]]
    /\ tbl_pc' = "fill"
    /\ UNCHANGED <<tbl_df, tbl_k, tbl_out>>
    /\ UNCHANGED <<aggVars, ltVars, plVars, moreVars>>

\* one iteration of the loop: scores[col_id][row_id] = val
TableFill ==
    /\ tbl_pc = "fill"
    /\ tbl_k < Len(tbl_df.rows)
    /\ LET row == tbl_df.rows[tbl_k + 1]
           col_id == RowColNames(tbl_df, "system_name")[tbl_k + 1]
           row_id == row["system_name"].str
       IN  tbl_scores' = [tbl_scores EXCEPT ![row_id][col_id] = row["score"]]
    /\ tbl_k' = tbl_k + 1
    /\ UNCHANGED <<tbl_df, tbl_pc, tbl_out>>
    /\ UNCHANGED <<aggVars, ltVars, plVars, moreVars>>

\* scores.sort_values(scores.columns[0], axis=0, ascending=False); the order
\* of rows with equal values is the sorting algorithm's
TableSort ==
    /\ tbl_pc = "fill"
    /\ tbl_k = Len(tbl_df.rows)
    /\ LET idx == SystemIdx(tbl_df, "system_name")
           cidx == ColumnIdx(tbl_df, "system_name")
       IN  \E order \in SortedOrders(idx, tbl_scores, cidx[1]) :
               tbl_out' = [system_names |-> order,
                           column_names |-> cidx,
                           scores |-> [i \in 1..Len(order) |->
                                          [j \in 1..Len(cidx) |-> tbl_scores[order[i]][cidx[j]]]]]
    /\ tbl_pc' = "done"
    /\ UNCHANGED <<tbl_df, tbl_k, tbl_scores>>
    /\ UNCHANGED <<aggVars, ltVars, plVars, moreVars>>

NextTable ==
    \/ TableReturnEmpty
    \/ TableAllocate
    \/ TableFill
    \/ TableSort

SpecTable == InitTable /\ [][NextTable]_vars

-----------------------------------------------------------------------------
\* Inputs of aggregate_view.

MkOp(op, group_by, skip, weight, weight_map, column, num) ==
    [op |-> op, group_by |-> group_by, skip_group_system |-> skip,
     weight |-> weight, weight_map |-> weight_map, column |-> column,
     num |-> num]

\* The operations a view may list: every op of the code, grouped and
\* ungrouped, and one op the code does not know.
OpSet ==
    { MkOp("mean", <<>>, FALSE, "", "", "", 0),
      MkOp("sum", <<>>, TRUE, "", "", "", 0),
      MkOp("max", <<"source_language">>, FALSE, "", "", "", 0),
      MkOp("min", <<>>, TRUE, "", "", "", 0),
      MkOp("gini", <<>>, TRUE, "", "", "", 0),
      MkOp("gini", <<>>, FALSE, "", "", "", 0),
      MkOp("multiply", <<>>, FALSE, "metric_weight", "", "", 0),
      MkOp("weighted_sum", <<>>, FALSE, "source_language", "pop_weight", "", 0),
      MkOp("add_default", <<>>, FALSE, "", "", "source_language", 0),
      MkOp("subtract", <<>>, FALSE, "", "", "", 1),
      MkOp("subtract", <<>>, FALSE, "", "", "", 16),
      MkOp("median", <<>>, FALSE, "", "", "", 0) }

Views ==
    UNION {[1..n -> OpSet] : n \in 0..MaxOps}
    \cup {[i \in 1..n |-> o] : o \in OpSet, n \in 0..MaxRepeat}

\* Columns of the long table the aggregator reads.
LongCols == <<"system_name", "creator", "source_language", "metric_weight", "score">>

ScoreVals == {0, 1, 3}

\* (system_name, creator, source_language) of the rows of an input table
RowIdents ==
    { <<>>,
      << <<"sysA", "u1", "en">> >>,
      << <<"sysA", "u1", "en">>, <<"sysA", "u1", "fr">> >>,
      << <<"sysA", "u1", "en">>, <<"sysB", "u2", "en">> >> }

MkTable(ids, scores) ==
    [cols |-> LongCols,
     rows |-> [i \in 1..Len(ids) |->
                 [c \in SeqSet(LongCols) |->
                     IF c = "system_name" THEN S(ids[i][1])
                     ELSE IF c = "creator" THEN S(ids[i][2])
                     ELSE IF c = "source_language" THEN S(ids[i][3])
                     ELSE IF c = "metric_weight" THEN N(1)
                     ELSE N(scores[i])]]]

InputTables ==
    UNION {{MkTable(ids, scores) : scores \in [1..Len(ids) -> ScoreVals]} :
              ids \in RowIdents}

-----------------------------------------------------------------------------
\* aggregate_view as a state machine over the operations of the view.

InitAgg ==
    /\ input_df \in InputTables
    /\ view_spec \in Views
    /\ by_creator \in BOOLEAN
    /\ output_df = EmptyFrame
    /\ prev_df = EmptyFrame
    /\ op_i = 0
    /\ agg_pc = "entry"
    /\ agg_err = ""
    /\ TblOff
    /\ LtOff
    /\ PlOff
    /\ MoreOff

\* if input_df.empty: return input_df
AggReturnEmpty ==
    /\ agg_pc = "entry"
    /\ IsEmpty(input_df)
    /\ output_df' = input_df
    /\ agg_pc' = "returned"
    /\ UNCHANGED <<input_df, view_spec, by_creator, prev_df, op_i, agg_err>>
    /\ UNCHANGED <<tblVars, ltVars, plVars, moreVars>>

\* output_df = input_df.copy()
AggCopy ==
    /\ agg_pc = "entry"
    /\ ~IsEmpty(input_df)
    /\ output_df' = input_df
    /\ agg_pc' = "loop"
    /\ UNCHANGED <<input_df, view_spec, by_creator, prev_df, op_i, agg_err>>
    /\ UNCHANGED <<tblVars, ltVars, plVars, moreVars>>

\* the loop body for the next operation, when its op is in ops
AggStep(ops) ==
    /\ agg_pc = "loop"
    /\ op_i < Len(view_spec)
    /\ view_spec[op_i + 1].op \in ops
    /\ LET res == ApplyOp(output_df, view_spec[op_i + 1], by_creator)
       IN  IF res.err # ""
           THEN /\ agg_pc' = "raised"
                /\ agg_err' = res.err
                /\ UNCHANGED <<output_df, prev_df, op_i>>
           ELSE /\ output_df' = res.df
                /\ prev_df' = output_df
                /\ op_i' = op_i + 1
                /\ UNCHANGED <<agg_pc, agg_err>>
    /\ UNCHANGED <<input_df, view_spec, by_creator>>
    /\ UNCHANGED <<tblVars, ltVars, plVars, moreVars>>

AggReduce == AggStep(ReduceOps)
AggWeight == AggStep(WeightOps)
AggAddDefault == AggStep({"add_default"})
AggSubtract == AggStep({"subtract"})

\* else: raise ValueError(f"Unsupported operation ...")
AggUnsupported == AggStep({o.op : o \in OpSet} \ SupportedOps)

\* after the loop: prune the columns and return
AggFinish ==
    /\ agg_pc = "loop"
    /\ op_i = Len(view_spec)
    /\ output_df' = PruneColumns(output_df)
    /\ agg_pc' = "returned"
    /\ UNCHANGED <<input_df, view_spec, by_creator, prev_df, op_i, agg_err>>
    /\ UNCHANGED <<tblVars, ltVars, plVars, moreVars>>

NextAgg ==
    \/ AggReturnEmpty
    \/ AggCopy
    \/ AggReduce
    \/ AggWeight
    \/ AggAddDefault
    \/ AggSubtract
    \/ AggUnsupported
    \/ AggFinish

SpecAgg == InitAgg /\ [][NextAgg]_vars

-----------------------------------------------------------------------------
\* _gini as a state machine over the columns of df.

GiniVals == {-1, 0, 1, 3}

\* tables of a string column, a constant numeric column and a score column
GiniTables ==
    UNION {{[cols |-> <<"system_name", "metric_weight", "score">>,
             rows |-> [i \in 1..n |->
                         [system_name |-> S("sysA"), metric_weight |-> N(1),
                          score |-> N(scores[i])]]] :
               scores \in [1..n -> GiniVals]} : n \in 0..MaxGiniRows}

InitGini ==
    /\ gi_df \in GiniTables
    /\ gi_numeric \in BOOLEAN
    /\ gi_pc = "entry"
    /\ gi_data = <<>>
    /\ AggOff
    /\ TblOff
    /\ LtOff
    /\ PlOff
    /\ FcOff
    /\ RcOff

\* if numeric_only: df = df.select_dtypes(include=numerics)
GiniSelect ==
    /\ gi_pc = "entry"
    /\ gi_df' = IF gi_numeric THEN Project(gi_df, NumericCols(gi_df)) ELSE gi_df
    /\ gi_pc' = "cols"
    /\ UNCHANGED <<gi_numeric, gi_data>>
    /\ UNCHANGED <<aggVars, tblVars, ltVars, plVars, fcVars, rcVars>>

\* one iteration of "for col in df.columns" on a numeric column
GiniColumn ==
    /\ gi_pc = "cols"
    /\ Len(gi_data) < Len(gi_df.cols)
    /\ LET col == gi_df.cols[Len(gi_data) + 1]
       IN  /\ col \notin ObjectCols \/ Len(gi_df.rows) = 0
           /\ gi_data' = Append(gi_data, <<col, GiniCells(ColValues(gi_df, col))>>)
    /\ UNCHANGED <<gi_df, gi_numeric, gi_pc>>
    /\ UNCHANGED <<aggVars, tblVars, ltVars, plVars, fcVars, rcVars>>

\* the same iteration on a column of strings: the arithmetic raises
GiniColumnRaises ==
    /\ gi_pc = "cols"
    /\ Len(gi_data) < Len(gi_df.cols)
    /\ gi_df.cols[Len(gi_data) + 1] \in ObjectCols
    /\ gi_pc' = "raised"
    /\ UNCHANGED <<gi_df, gi_numeric, gi_data>>
    /\ UNCHANGED <<aggVars, tblVars, ltVars, plVars, fcVars, rcVars>>

\* return pd.Series(data=data, index=index)
GiniReturn ==
    /\ gi_pc = "cols"
    /\ Len(gi_data) = Len(gi_df.cols)
    /\ gi_pc' = "returned"
    /\ UNCHANGED <<gi_df, gi_numeric, gi_data>>
    /\ UNCHANGED <<aggVars, tblVars, ltVars, plVars, fcVars, rcVars>>

NextGini ==
    \/ GiniSelect
    \/ GiniColumn
    \/ GiniColumnRaises
    \/ GiniReturn

SpecGini == InitGini /\ [][NextGini]_vars

-----------------------------------------------------------------------------
\* generate_dataframe_from_sys_infos.

Absent == "<absent>"      \* a key the dict does not hold
NoneStr == "<None>"       \* Python's None in a string field

\* x.get(key, default) for a string field
Get(v, default) == IF v = Absent THEN default ELSE v

NoMetrics == [set |-> FALSE, list |-> <<>>]
Metrics(list) == [set |-> TRUE, list |-> list]

\* the (dataset_name, sub_dataset, split) key of a dataset config
ConfigKey(x) == <<x.dataset_name, Get(x.sub_dataset, NoneStr), Get(x.split, "test")>>

\* load_sys_infos: the (dataset_name, subdataset_name, dataset_split) tuple
\* requested from the system store for a dataset entry
RequestKey(record) ==
    <<record.dataset_name, Get(record.sub_dataset, NoneStr),
      Get(record.dataset_split, "test")>>

\* the key of a system's dataset binding
SystemKey(sys) == <<sys.dataset.dataset_name, sys.dataset.sub_dataset, sys.dataset.split>>

\* dataset_to_id: the dict comprehension keeps the last index of a key
HasId(configs, key) == \E i \in 1..Len(configs) : ConfigKey(configs[i]) = key
DatasetToId(configs, key) ==
    CHOOSE i \in 1..Len(configs) :
        /\ ConfigKey(configs[i]) = key
        /\ \A j \in (i + 1)..Len(configs) : ConfigKey(configs[j]) # key

\* systems = [x for x in systems if (...) in dataset_to_id]
KeepSystems(configs, systems) ==
    SelectSeq(systems, LAMBDA x : HasId(configs, SystemKey(x)))

\* the dataset config derived from a key observed on a system
DerivedConfig(key) ==
    [dataset_name |-> key[1], sub_dataset |-> key[2], split |-> key[3],
     dataset_split |-> Absent, metrics |-> NoMetrics]

\* the orders list({...}) may give the deduplicated keys
KeyOrders(systems) ==
    LET keys == {SystemKey(systems[i]) : i \in 1..Len(systems)}
    IN  {p \in [1..Cardinality(keys) -> keys] :
            \A i, j \in 1..Cardinality(keys) : i # j => p[i] # p[j]}

\* the keys of system_dataset_results, in insertion order
RECURSIVE SystemNames(_)
SystemNames(systems) ==
    IF Len(systems) = 0 THEN <<>>
    ELSE LET front == SystemNames(SubSeq(systems, 1, Len(systems) - 1))
             name == systems[Len(systems)].system_name
         IN  IF name \in SeqSet(front) THEN front ELSE Append(front, name)

\* system_dataset_results[sys_name][dataset_id]: the last system of that name
\* bound to that dataset config, as a sequence of length 0 (None) or 1
Slot(configs, systems, name, di) ==
    LET hits == {i \in 1..Len(systems) :
                    /\ systems[i].system_name = name
                    /\ DatasetToId(configs, SystemKey(systems[i])) = di}
    IN  IF hits = {} THEN <<>>
        ELSE <<systems[CHOOSE i \in hits : \A j \in hits : j <= i]>>

\* system_to_creator[sys_name]: the dict comprehension keeps the last system
SystemToCreator(systems, name) ==
    LET hits == {i \in 1..Len(systems) : systems[i].system_name = name}
    IN  systems[CHOOSE i \in hits : \A j \in hits : j <= i].creator

\* dataset_config.get("metrics", benchmark_config.metrics)
DatasetMetrics(config, dataset_config) ==
    IF dataset_config.metrics.set THEN dataset_config.metrics ELSE config.metrics

\* dataset_metric.get("default") or 0.0
DefaultScore(metric) ==
    IF IsNull(metric.default) \/ metric.default = N(0) THEN N(0) ELSE metric.default

\* the values recorded under the metric's name on any level of sys.results
MatchingResults(sys, metric) ==
    LET hits == SelectSeq(sys.results, LAMBDA kv : kv[1] = metric.name)
    IN  [i \in 1..Len(hits) |-> N(hits[i][2])]

\* performance if performance else (dataset_metric.get("default") or 0.0)
SystemScore(sys, metric) ==
    LET matching_results == MatchingResults(sys, metric)
        performance == MaxCells(matching_results)
    IN  IF Len(matching_results) = 0 \/ performance = N(0)
        THEN DefaultScore(metric)
        ELSE performance

\* Faulty variant: an empty slot gets the score but not the creator
EmptySlotCellsNoCreator(systems, name, metric) ==
    [creator |-> NaN, score |-> DefaultScore(metric)]

\* the else branch: the system was not submitted for this dataset
EmptySlotCells(systems, name, metric) ==
    [creator |-> S(SystemToCreator(systems, name)), score |-> DefaultScore(metric)]

\* append the keys of ks not yet in cols, in order (df_input[key] = [])
RECURSIVE AddCols(_, _)
AddCols(cols, ks) ==
    IF Len(ks) = 0 THEN cols
    ELSE AddCols(IF ks[1] \in SeqSet(cols) THEN cols ELSE Append(cols, ks[1]), Tail(ks))

\* dataset_config.keys() that are neither default columns nor excluded
ConfigKeys(dataset_config) ==
    IF dataset_config.split # Absent THEN <<"split">> ELSE <<>>

RECURSIVE AllConfigKeys(_)
AllConfigKeys(configs) ==
    IF Len(configs) = 0 THEN <<>>
    ELSE ConfigKeys(configs[1]) \o AllConfigKeys(Tail(configs))

\* [operation.get("weight")] + operation.get("group_by", []), without the
\* empty ones
OpKeys(operation) ==
    (IF operation.weight # "" THEN <<operation.weight>> ELSE <<>>) \o operation.group_by

RECURSIVE AllOpKeys(_)
AllOpKeys(operations) ==
    IF Len(operations) = 0 THEN <<>>
    ELSE OpKeys(operations[1]) \o AllOpKeys(Tail(operations))

RECURSIVE AllViewKeys(_)
AllViewKeys(views) ==
    IF Len(views) = 0 THEN <<>>
    ELSE AllOpKeys(views[1].operations) \o AllViewKeys(Tail(views))

\* the keys of df_input, in insertion order
LongTableCols(config, configs) ==
    AddCols(AddCols(AddCols(
        <<"system_name", "dataset_name", "sub_dataset", "dataset_split", "creator">>,
        AllConfigKeys(configs)),
        AllViewKeys(config.views)),
        <<"metric", "metric_weight", "score">>)

\* info for one df_key of one row: column_dict[df_key] when present, else
\* the fallbacks of the elif chain
LongCell(c, dataset_config, meta, name, metric, weight, cells) ==
    IF c = "system_name" THEN S(name)
    ELSE IF c = "dataset_name" THEN S(dataset_config.dataset_name)
    ELSE IF c = "sub_dataset"
         THEN IF Get(dataset_config.sub_dataset, NoneStr) = NoneStr THEN NaN
              ELSE S(dataset_config.sub_dataset)
    ELSE IF c = "dataset_split" THEN S(Get(dataset_config.dataset_split, "test"))
    ELSE IF c = "split" /\ dataset_config.split # Absent THEN S(dataset_config.split)
    ELSE IF c = "creator" THEN cells.creator
    ELSE IF c = "metric" THEN S(metric.name)
    ELSE IF c = "metric_weight" THEN weight
    ELSE IF c = "score" THEN cells.score
    ELSE IF c = "source_language"
         THEN IF Len(meta.languages) = 0 THEN S("eng") ELSE S(meta.languages[1])
    ELSE IF c = "target_language"
         THEN IF Len(meta.languages) = 0 THEN S("eng")
              ELSE S(meta.languages[Len(meta.languages)])
    ELSE NaN

\* the row appended to df_input for one (system name, dataset config, metric)
LongRow(cols, systems, dataset_config, meta, metrics, slot, name, k) ==
    LET metric == metrics[k]
        weight == IF IsNull(metric.weight) THEN FDiv(N(1), N(Len(metrics)))
                  ELSE metric.weight
        cells == IF Len(slot) = 1
                 THEN [creator |-> S(slot[1].creator),
                       score |-> SystemScore(slot[1], metric)]
                 ELSE EmptySlotCells(systems, name, metric)
    IN  [c \in SeqSet(cols) |->
            LongCell(c, dataset_config, meta, name, metric, weight, cells)]

\* the exception of the "metrics must be specified" branch: the message
\* reads dataset_config["sub_dataset"] and dataset_config["dataset_split"]
NoMetricsError(dataset_config) ==
    IF dataset_config.sub_dataset = Absent \/ dataset_config.dataset_split = Absent
    THEN "KeyError" ELSE "ValueError"

\* Faulty variant: a dataset without metrics contributes no row and no error
SlotRowsNoRaise(config, cols, systems, dataset_config, meta, slot, name) ==
    LET dataset_metrics == DatasetMetrics(config, dataset_config)
    IN  IF ~meta.found \/ ~dataset_metrics.set THEN [err |-> "", rows |-> <<>>]
        ELSE [err |-> "",
              rows |-> [k \in 1..Len(dataset_metrics.list) |->
                          LongRow(cols, systems, dataset_config, meta,
                                  dataset_metrics.list, slot, name, k)]]

\* the body of the inner loop for one (system name, dataset config): nothing
\* when the dataset's metadata is None, an error when no metrics are defined,
\* else one row per metric
SlotRows(config, cols, systems, dataset_config, meta, slot, name) ==
    LET dataset_metrics == DatasetMetrics(config, dataset_config)
    IN  IF ~meta.found THEN [err |-> "", rows |-> <<>>]
        ELSE IF ~dataset_metrics.set
             THEN [err |-> NoMetricsError(dataset_config), rows |-> <<>>]
        ELSE [err |-> "",
              rows |-> [k \in 1..Len(dataset_metrics.list) |->
                          LongRow(cols, systems, dataset_config, meta,
                                  dataset_metrics.list, slot, name, k)]]

\* Inputs of generate_dataframe_from_sys_infos.

\* a metric without default and weight, and one with both
Acc == [name |-> "acc", default |-> NaN, weight |-> NaN]
F1 == [name |-> "f1", default |-> N(1), weight |-> N(2)]

MkDataset(name, sub, split, dataset_split, metrics) ==
    [dataset_name |-> name, sub_dataset |-> sub, split |-> split,
     dataset_split |-> dataset_split, metrics |-> metrics]

MkSystem(name, creator, dataset_name, split, results, created_at) ==
    [system_name |-> name, creator |-> creator,
     dataset |-> [dataset_name |-> dataset_name, sub_dataset |-> NoneStr, split |-> split],
     results |-> results, created_at |-> created_at]

\* the systems of the store: two submissions named sysA by different creators,
\* one with a metric on two levels, one without results, one on another
\* split, two with a recorded score of 0
StoreSystems ==
    { MkSystem("sysA", "u1", "d1", "test", << <<"acc", 3>> >>, 1),
      MkSystem("sysA", "u2", "d2", "test", << <<"acc", 0>>, <<"f1", 2>>, <<"f1", 3>> >>, 2),
      MkSystem("sysB", "u2", "d1", "test", <<>>, 2),
      MkSystem("sysB", "u1", "d1", "dev", << <<"acc", 1>>, <<"f1", 0>> >>, 3) }

SystemLists ==
    UNION {{l \in [1..n -> StoreSystems] : \A i, j \in 1..n : i # j => l[i] # l[j]} :
              n \in 0..MaxSystems}

\* benchmark_config.datasets: unset, or lists of d1 and d2 with and without
\* metrics of their own and with and without the optional keys
DatasetLists ==
    { <<>>,
      << MkDataset("d1", Absent, Absent, Absent, NoMetrics) >>,
      << MkDataset("d1", Absent, Absent, Absent, NoMetrics),
         MkDataset("d2", Absent, Absent, Absent, NoMetrics) >>,
      << MkDataset("d1", Absent, Absent, Absent, Metrics(<<Acc>>)),
         MkDataset("d2", NoneStr, Absent, "test", NoMetrics) >>,
      << MkDataset("d1", Absent, "dev", "dev", Metrics(<<Acc, F1>>)),
         MkDataset("d2", Absent, "test", Absent, Metrics(<<F1>>)) >>,
      << MkDataset("d1", Absent, Absent, Absent, Metrics(<<F1>>)),
         MkDataset("d1", Absent, Absent, Absent, NoMetrics) >>,
      << MkDataset("d1", Absent, Absent, "dev", Metrics(<<Acc>>)) >> }

GlobalMetrics == {NoMetrics, Metrics(<<Acc>>), Metrics(<<Acc, F1>>)}

MkView(name, trend, operations) ==
    [name |-> name, trend |-> trend, operations |-> operations]

LongViews ==
    { <<>>,
      << MkView("by_language", "",
                << MkOp("weighted_sum", <<"source_language">>, FALSE,
                        "metric_weight", "", "", 0) >>) >> }

\* what DatasetDBUtils.find_datasets may answer for a dataset config
LookupAnswers ==
    { [found |-> FALSE, languages |-> <<>>],
      [found |-> TRUE, languages |-> <<>>],
      [found |-> TRUE, languages |-> <<"en", "fr">>] }

-----------------------------------------------------------------------------
\* generate_dataframe_from_sys_infos as a state machine.

InitLong ==
    /\ lt_config \in [datasets : DatasetLists, metrics : GlobalMetrics, views : LongViews]
    /\ lt_systems \in SystemLists
    /\ lt_pc = "entry"
    /\ lt_configs = <<>>
    /\ lt_kept = <<>>
    /\ lt_metas = <<>>
    /\ lt_si = 0
    /\ lt_di = 0
    /\ lt_rows = <<>>
    /\ lt_err = ""
    /\ AggOff
    /\ TblOff
    /\ PlOff
    /\ MoreOff

\* if benchmark_config.datasets: the configured datasets, systems filtered
LtResolveConfigured ==
    /\ lt_pc = "entry"
    /\ Len(lt_config.datasets) > 0
    /\ lt_configs' = lt_config.datasets
    /\ lt_kept' = KeepSystems(lt_config.datasets, lt_systems)
    /\ lt_pc' = "lookup"
    /\ UNCHANGED <<lt_config, lt_systems, lt_metas, lt_si, lt_di, lt_rows, lt_err>>
    /\ UNCHANGED <<aggVars, tblVars, plVars, moreVars>>

\* else: the datasets of the systems, deduplicated, in the order of a set
LtResolveDerived ==
    /\ lt_pc = "entry"
    /\ Len(lt_config.datasets) = 0
    /\ \E order \in KeyOrders(lt_systems) :
           lt_configs' = [i \in 1..Len(order) |-> DerivedConfig(order[i])]
    /\ lt_kept' = lt_systems
    /\ lt_pc' = "lookup"
    /\ UNCHANGED <<lt_config, lt_systems, lt_metas, lt_si, lt_di, lt_rows, lt_err>>
    /\ UNCHANGED <<aggVars, tblVars, plVars, moreVars>>

\* one iteration of "for x in dataset_configs" with the answer of the lookup
LtLookup(answers) ==
    /\ lt_pc = "lookup"
    /\ Len(lt_metas) < Len(lt_configs)
    /\ \E meta \in answers : lt_metas' = Append(lt_metas, meta)
    /\ UNCHANGED <<lt_config, lt_systems, lt_pc, lt_configs, lt_kept, lt_si, lt_di,
                   lt_rows, lt_err>>
    /\ UNCHANGED <<aggVars, tblVars, plVars, moreVars>>

\* dataset_return.total == 1
LtLookupFound == LtLookup({a \in LookupAnswers : a.found})

\* else: warning, dataset_metadatas.append(None)
LtLookupMissing == LtLookup({a \in LookupAnswers : ~a.found})

\* system_dataset_results, system_to_creator and the columns are set up
LtRearrange ==
    /\ lt_pc = "lookup"
    /\ Len(lt_metas) = Len(lt_configs)
    /\ lt_pc' = "rows"
    /\ lt_si' = 1
    /\ lt_di' = 1
    /\ UNCHANGED <<lt_config, lt_systems, lt_configs, lt_kept, lt_metas, lt_rows, lt_err>>
    /\ UNCHANGED <<aggVars, tblVars, plVars, moreVars>>

\* Faulty variant: the inner loop stops after the first dataset config
NextSlotFirstOnly(si, di, n) == <<si + 1, 1>>

\* the position after (lt_si, lt_di) in the nested loops
NextSlot(si, di, n) == IF di < n THEN <<si, di + 1>> ELSE <<si + 1, 1>>

\* one iteration of the inner loop; found and has_metrics select the branch
LtSlot(found, has_metrics) ==
    /\ lt_pc = "rows"
    /\ lt_si <= Len(SystemNames(lt_kept))
    /\ LET name == SystemNames(lt_kept)[lt_si]
           dataset_config == lt_configs[lt_di]
           meta == lt_metas[lt_di]
           res == SlotRows(lt_config, LongTableCols(lt_config, lt_configs), lt_kept,
                           dataset_config, meta,
                           Slot(lt_configs, lt_kept, name, lt_di), name)
           next == NextSlot(lt_si, lt_di, Len(lt_configs))
       IN  /\ meta.found = found
           /\ found => DatasetMetrics(lt_config, dataset_config).set = has_metrics
           /\ IF res.err # ""
              THEN /\ lt_pc' = "raised"
                   /\ lt_err' = res.err
                   /\ UNCHANGED <<lt_si, lt_di, lt_rows>>
              ELSE /\ lt_rows' = lt_rows \o res.rows
                   /\ lt_si' = next[1]
                   /\ lt_di' = next[2]
                   /\ UNCHANGED <<lt_pc, lt_err>>
    /\ UNCHANGED <<lt_config, lt_systems, lt_configs, lt_kept, lt_metas>>
    /\ UNCHANGED <<aggVars, tblVars, plVars, moreVars>>

\* if dataset_metadata is None: continue
LtSkipDataset == LtSlot(FALSE, FALSE)

\* if dataset_metrics is None: raise ValueError(...)
LtRaiseNoMetrics == LtSlot(TRUE, FALSE)

\* for dataset_metric in dataset_metrics: ... df_arr.append(info)
LtEmitRows == LtSlot(TRUE, TRUE)

\* return pd.DataFrame(df_input)
LtReturn ==
    /\ lt_pc = "rows"
    /\ lt_si > Len(SystemNames(lt_kept))
    /\ lt_pc' = "returned"
    /\ UNCHANGED <<lt_config, lt_systems, lt_configs, lt_kept, lt_metas, lt_si, lt_di,
                   lt_rows, lt_err>>
    /\ UNCHANGED <<aggVars, tblVars, plVars, moreVars>>

NextLong ==
    \/ LtResolveConfigured
    \/ LtResolveDerived
    \/ LtLookupFound
    \/ LtLookupMissing
    \/ LtRearrange
    \/ LtSkipDataset
    \/ LtRaiseNoMetrics
    \/ LtEmitRows
    \/ LtReturn

SpecLong == InitLong /\ [][NextLong]_vars

-----------------------------------------------------------------------------
\* The pipeline generate_plots replays: the long table and its views as
\* functions of their inputs.

\* the nested loops of generate_dataframe_from_sys_infos from (si, di) on
RECURSIVE LongRowsFrom(_, _, _, _, _, _, _)
LongRowsFrom(config, cols, configs, kept, metas, si, di) ==
    IF si > Len(SystemNames(kept)) THEN [err |-> "", rows |-> <<>>]
    ELSE LET name == SystemNames(kept)[si]
             res == SlotRows(config, cols, kept, configs[di], metas[di],
                             Slot(configs, kept, name, di), name)
             next == NextSlot(si, di, Len(configs))
         IN  IF res.err # "" THEN res
             ELSE LET rest == LongRowsFrom(config, cols, configs, kept, metas,
                                           next[1], next[2])
                  IN  [err |-> rest.err, rows |-> res.rows \o rest.rows]

\* the dataset configs generate_dataframe_from_sys_infos may resolve
ResolvedConfigs(config, systems) ==
    IF Len(config.datasets) > 0 THEN {config.datasets}
    ELSE {[i \in 1..Len(order) |-> DerivedConfig(order[i])] : order \in KeyOrders(systems)}

\* generate_dataframe_from_sys_infos(config, systems) for resolved dataset
\* configs and a dataset store answering by dataset name
LongTable(config, configs, systems, store) ==
    LET kept == IF Len(config.datasets) > 0 THEN KeepSystems(configs, systems) ELSE systems
        metas == [i \in 1..Len(configs) |-> store[configs[i].dataset_name]]
        cols == LongTableCols(config, configs)
        res == LongRowsFrom(config, cols, configs, kept, metas, 1, 1)
    IN  IF res.err # "" THEN Raise(res.err)
        ELSE Ok([cols |-> cols, rows |-> res.rows], "flat")

\* for operation in view_spec.operations, from the first of ops on
RECURSIVE RunOps(_, _, _)
RunOps(df, ops, byc) ==
    IF Len(ops) = 0 THEN Ok(df, "flat")
    ELSE LET res == ApplyOp(df, ops[1], byc)
         IN  IF res.err # "" THEN res ELSE RunOps(res.df, Tail(ops), byc)

\* aggregate_view(input_df, view_spec, by_creator)
AggregateView(df, view, byc) ==
    IF IsEmpty(df) THEN Ok(df, "flat")
    ELSE LET res == RunOps(df, view.operations, byc)
         IN  IF res.err # "" THEN res ELSE Ok(PruneColumns(res.df), "flat")

\* generate_view_dataframes: (name, table) per view, then ("Original", orig_df)
GenerateViewDataframes(config, orig_df, byc) ==
    [i \in 1..(Len(config.views) + 1) |->
        IF i <= Len(config.views)
        THEN [name |-> config.views[i].name,
              res |-> AggregateView(orig_df, config.views[i], byc)]
        ELSE [name |-> "Original", res |-> Ok(orig_df, "flat")]]

-----------------------------------------------------------------------------
\* generate_plots.

\* plot_dict[name]: the trend of the last view of that name ("increase" when
\* unset), and "original" under the key "Original"
PlotModeOriginalAll(config, name) ==
    LET hits == {i \in 1..Len(config.views) : config.views[i].name = name}
        last == config.views[CHOOSE i \in hits : \A j \in hits : j <= i]
    IN  IF name = "Original" THEN "all"
        ELSE IF last.trend # "" THEN last.trend ELSE "increase"

PlotMode(config, name) ==
    LET hits == {i \in 1..Len(config.views) : config.views[i].name = name}
        last == config.views[CHOOSE i \in hits : \A j \in hits : j <= i]
    IN  IF name = "Original" THEN "original"
        ELSE IF last.trend # "" THEN last.trend ELSE "increase"

\* the keys of json_dict
SeriesNames(config) ==
    {config.views[i].name : i \in 1..Len(config.views)} \cup {"Original", "times"}

\* sorted(list({x.created_at.date() for x in sys_infos}))
RECURSIVE SortDates(_)
SortDates(ds) ==
    IF ds = {} THEN <<>>
    ELSE LET d == CHOOSE x \in ds : \A y \in ds : x <= y
         IN  <<d>> \o SortDates(ds \ {d})

UniqueDates(sys_infos) ==
    SortDates({sys_infos[i].created_at : i \in 1..Len(sys_infos)})

\* Faulty variant: only the systems created on the date itself
SystemsOn(sys_infos, date) ==
    SelectSeq(sys_infos, LAMBDA sys : sys.created_at = date)

\* [sys for sys in sys_infos if sys.created_at.date() <= date]
SystemsUntil(sys_infos, date) ==
    SelectSeq(sys_infos, LAMBDA sys : sys.created_at <= date)

\* str(date)
StrOfDate(date) == [iso |-> date]

\* v.max()["score"]
ViewMax(df) == Reduce("max", ColValues(df, "score"))

\* Faulty variant: a point equal to the last recorded one is recorded too
RecordNonStrict(mode, series, date, score) ==
    IF mode = "all" THEN Append(series, <<date, score>>)
    ELSE IF mode = "increase"
         THEN IF Len(series) = 0 \/ ~FLess(score, series[Len(series)][2])
              THEN Append(series, <<date, score>>)
              ELSE series
    ELSE series

\* the if/elif on plot_dict[k] for one (k, v) of system_dfs
Record(mode, series, date, score) ==
    IF mode = "all" THEN Append(series, <<date, score>>)
    ELSE IF mode = "increase"
         THEN IF Len(series) = 0 \/ FLess(series[Len(series)][2], score)
              THEN Append(series, <<date, score>>)
              ELSE series
    ELSE series

\* for k, v in system_dfs: the series after the views from the i-th on
RECURSIVE RecordAll(_, _, _, _, _)
RecordAll(json, config, dfs, date, i) ==
    IF i > Len(dfs) THEN json
    ELSE LET k == dfs[i].name
             mode == PlotMode(config, k)
             after == IF mode \in {"all", "increase"}
                      THEN [json EXCEPT ![k] = Record(mode, json[k], date,
                                                      ViewMax(dfs[i].res.df))]
                      ELSE json
         IN  RecordAll(after, config, dfs, date, i + 1)

\* the exception of the first view that raises, "" when none does
FirstError(dfs) ==
    LET bad == {i \in 1..Len(dfs) : dfs[i].res.err # ""}
    IN  IF bad = {} THEN ""
        ELSE dfs[CHOOSE i \in bad : \A j \in bad : i <= j].res.err

\* Inputs of generate_plots.

\* what a submission may be: (system_name, dataset_name, score of "acc")
SubmissionKinds ==
    { <<"sysA", "d1", 1>>, <<"sysA", "d1", 3>>, <<"sysB", "d1", 2>>, <<"sysB", "d2", 4>> }

\* a submission history: the i-th system was created on the day of the one
\* before it or on the next day
History(kinds, days) ==
    [i \in 1..Len(kinds) |->
        MkSystem(kinds[i][1], "u1", kinds[i][2], "test",
                 << <<"acc", kinds[i][3]>> >>,
                 1 + Cardinality({j \in 2..i : days[j]}))]

\* one system resubmitted on five days in a row, its scores rising and
\* falling as 1, 1, 3, 2, 4
UpAndDown ==
    History(<< <<"sysA", "d1", 1>>, <<"sysA", "d1", 1>>, <<"sysA", "d1", 3>>,
               <<"sysA", "d1", 2>>, <<"sysA", "d1", 4>> >>,
            <<TRUE, TRUE, TRUE, TRUE, TRUE>>)

Histories ==
    UNION {{History(kinds, days) : kinds \in [1..n -> SubmissionKinds],
                                   days \in [1..n -> BOOLEAN]} :
              n \in 0..MaxSubmissions}
    \cup {UpAndDown}

PlotViews ==
    << MkView("latest", "", <<>>),
       MkView("mean", "all", << MkOp("mean", <<>>, TRUE, "", "", "", 0) >>),
       MkView("best", "increase", << MkOp("max", <<>>, TRUE, "", "", "", 0) >>) >>

BrokenViews ==
    << MkView("broken", "increase", << MkOp("median", <<>>, FALSE, "", "", "", 0) >>) >>

MkConfig(type, system_query, datasets, metrics, views) ==
    [type |-> type, system_query |-> system_query, datasets |-> datasets,
     metrics |-> metrics, views |-> views]

OnlyD1 == << MkDataset("d1", Absent, Absent, Absent, NoMetrics) >>

PlotConfigs ==
    { MkConfig("", TRUE, <<>>, Metrics(<<Acc>>), PlotViews),
      MkConfig("", FALSE, OnlyD1, Metrics(<<Acc>>), PlotViews),
      MkConfig("", TRUE, OnlyD1, Metrics(<<Acc>>), BrokenViews),
      MkConfig("", TRUE, <<>>, NoMetrics, PlotViews),
      MkConfig("", FALSE, <<>>, Metrics(<<Acc>>), PlotViews),
      MkConfig("abstract", TRUE, <<>>, Metrics(<<Acc>>), PlotViews) }

\* the dataset store: every dataset known, or d1 unknown
Stores ==
    { [d \in {"d1", "d2"} |-> [found |-> TRUE, languages |-> <<"en">>]],
      [d \in {"d1", "d2"} |-> [found |-> d # "d1", languages |-> <<>>]] }

-----------------------------------------------------------------------------
\* generate_plots as a state machine over the dates it replays.

InitPlots ==
    /\ pl_config \in PlotConfigs
    /\ pl_sys_infos \in Histories
    /\ pl_metas \in Stores
    /\ pl_pc = "entry"
    /\ pl_dates = <<>>
    /\ pl_di = 0
    /\ pl_orig = [df |-> [cols |-> <<>>, rows |-> <<>>], shape |-> "flat", err |-> ""]
    /\ pl_dfs = <<>>
    /\ pl_json = <<>>
    /\ pl_cache = <<>>
    /\ pl_out = <<>>
    /\ pl_err = ""
    /\ AggOff
    /\ TblOff
    /\ LtOff
    /\ MoreOff

\* if config.type == "abstract": return {}
PlotAbstract ==
    /\ pl_pc = "entry"
    /\ pl_config.type = "abstract"
    /\ pl_out' = << <<>> >>
    /\ pl_pc' = "returned"
    /\ UNCHANGED <<pl_config, pl_sys_infos, pl_metas, pl_dates, pl_di, pl_orig, pl_dfs,
                   pl_json, pl_cache, pl_err>>
    /\ UNCHANGED <<aggVars, tblVars, ltVars, moreVars>>

\* open_cached_file finds a fresh file: its payload is returned
PlotCacheHit ==
    /\ pl_pc = "entry"
    /\ pl_config.type # "abstract"
    /\ pl_cache # <<>>
    /\ pl_out' = pl_cache
    /\ pl_pc' = "returned"
    /\ UNCHANGED <<pl_config, pl_sys_infos, pl_metas, pl_dates, pl_di, pl_orig, pl_dfs,
                   pl_json, pl_cache, pl_err>>
    /\ UNCHANGED <<aggVars, tblVars, ltVars, moreVars>>

\* no fresh file, and load_sys_infos raises: neither system_query nor datasets
PlotLoadFails ==
    /\ pl_pc = "entry"
    /\ pl_config.type # "abstract"
    /\ ~pl_config.system_query /\ Len(pl_config.datasets) = 0
    /\ pl_err' = "ValueError"
    /\ pl_pc' = "raised"
    /\ UNCHANGED <<pl_config, pl_sys_infos, pl_metas, pl_dates, pl_di, pl_orig, pl_dfs,
                   pl_json, pl_cache, pl_out>>
    /\ UNCHANGED <<aggVars, tblVars, ltVars, moreVars>>

\* no fresh file: the modes, the empty series and the dates are set up
PlotStart ==
    /\ pl_pc = "entry"
    /\ pl_config.type # "abstract"
    /\ pl_config.system_query \/ Len(pl_config.datasets) > 0
    /\ pl_json' = [k \in SeriesNames(pl_config) |-> <<>>]
    /\ pl_dates' = UniqueDates(pl_sys_infos)
    /\ pl_di' = 0
    /\ pl_pc' = "dates"
    /\ UNCHANGED <<pl_config, pl_sys_infos, pl_metas, pl_orig, pl_dfs, pl_cache, pl_out,
                   pl_err>>
    /\ UNCHANGED <<aggVars, tblVars, ltVars, moreVars>>

\* orig_df = generate_dataframe_from_sys_infos(config, systems) for the next
\* date; an exception of the builder ends generate_plots
PlotLongTable ==
    /\ pl_pc = "dates"
    /\ pl_di < Len(pl_dates)
    /\ LET systems == SystemsUntil(pl_sys_infos, pl_dates[pl_di + 1])
       IN  \E configs \in ResolvedConfigs(pl_config, systems) :
               pl_orig' = LongTable(pl_config, configs, systems, pl_metas)
    /\ pl_err' = pl_orig'.err
    /\ pl_pc' = IF pl_orig'.err # "" THEN "raised" ELSE "views"
    /\ UNCHANGED <<pl_config, pl_sys_infos, pl_metas, pl_dates, pl_di, pl_dfs, pl_json,
                   pl_cache, pl_out>>
    /\ UNCHANGED <<aggVars, tblVars, ltVars, moreVars>>

\* system_dfs = generate_view_dataframes(config, orig_df, by_creator=False);
\* an exception of a view ends generate_plots
PlotViewTables ==
    /\ pl_pc = "views"
    /\ pl_dfs' = GenerateViewDataframes(pl_config, pl_orig.df, FALSE)
    /\ pl_err' = FirstError(pl_dfs')
    /\ pl_pc' = IF pl_err' # "" THEN "raised" ELSE "record"
    /\ UNCHANGED <<pl_config, pl_sys_infos, pl_metas, pl_dates, pl_di, pl_orig, pl_json,
                   pl_cache, pl_out>>
    /\ UNCHANGED <<aggVars, tblVars, ltVars, moreVars>>

\* for k, v in system_dfs: the points of the date are recorded
PlotRecord ==
    /\ pl_pc = "record"
    /\ pl_json' = RecordAll(pl_json, pl_config, pl_dfs, StrOfDate(pl_dates[pl_di + 1]), 1)
    /\ pl_di' = pl_di + 1
    /\ pl_pc' = "dates"
    /\ UNCHANGED <<pl_config, pl_sys_infos, pl_metas, pl_dates, pl_orig, pl_dfs,
                   pl_cache, pl_out, pl_err>>
    /\ UNCHANGED <<aggVars, tblVars, ltVars, moreVars>>

\* json.dump(json_dict, outfile), then the file is read back and returned
PlotWrite ==
    /\ pl_pc = "dates"
    /\ pl_di = Len(pl_dates)
    /\ pl_cache' = <<pl_json>>
    /\ pl_out' = <<pl_json>>
    /\ pl_pc' = "returned"
    /\ UNCHANGED <<pl_config, pl_sys_infos, pl_metas, pl_dates, pl_di, pl_orig, pl_dfs,
                   pl_json, pl_err>>
    /\ UNCHANGED <<aggVars, tblVars, ltVars, moreVars>>

\* the next request for the plots of the same benchmark
PlotRequest ==
    /\ pl_pc \in {"returned", "raised"}
    /\ pl_pc' = "entry"
    /\ pl_out' = <<>>
    /\ pl_err' = ""
    /\ pl_dates' = <<>>
    /\ pl_di' = 0
    /\ pl_orig' = Ok(EmptyFrame, "flat")
    /\ pl_dfs' = <<>>
    /\ pl_json' = <<>>
    /\ UNCHANGED <<pl_config, pl_sys_infos, pl_metas, pl_cache>>
    /\ UNCHANGED <<aggVars, tblVars, ltVars, moreVars>>

NextPlots ==
    \/ PlotAbstract
    \/ PlotCacheHit
    \/ PlotLoadFails
    \/ PlotStart
    \/ PlotLongTable
    \/ PlotViewTables
    \/ PlotRecord
    \/ PlotWrite
    \/ PlotRequest

SpecPlots == InitPlots /\ [][NextPlots]_vars

-----------------------------------------------------------------------------
\* find_config_by_id.  A document or dict is a function from its keys to
\* strings, NoneStr standing for None; a BenchmarkConfig holds every
\* attribute of ConfigFields.

ConfigFields == {"id", "parent", "name", "type", "preferred_username"}

\* _convert_id_from_db: doc["id"] = doc["_id"]; doc.pop("_id")
ConvertIdFromDb(doc) ==
    [k \in (DOMAIN doc \ {"_id"}) \cup {"id"} |->
        IF k = "id" THEN doc["_id"] ELSE doc[k]]

\* config_dict.get("parent")
ParentId(config_dict) ==
    IF "parent" \in DOMAIN config_dict THEN config_dict["parent"] ELSE NoneStr

\* if parent_id: neither None nor the empty string
HasParent(config_dict) == ParentId(config_dict) \notin {NoneStr, ""}

\* Faulty variant: a None of the source overwrites the destination too
UpdateWithAllValues(dest, source) ==
    [k \in DOMAIN dest \cup DOMAIN source |->
        IF k \in DOMAIN source THEN source[k] ELSE dest[k]]

\* _update_with_not_none_values(dest, source)
UpdateWithNotNoneValues(dest, source) ==
    [k \in DOMAIN dest \cup {q \in DOMAIN source : source[q] # NoneStr} |->
        IF k \in DOMAIN source /\ source[k] # NoneStr THEN source[k] ELSE dest[k]]

\* BenchmarkConfig.from_dict: an attribute the dict does not hold is None
FromDict(config_dict) ==
    [f \in ConfigFields |-> IF f \in DOMAIN config_dict THEN config_dict[f] ELSE NoneStr]

\* parent_config.to_dict(): one key per attribute, None included
ToDict(config) == [k \in DOMAIN config |-> config[k]]

\* insert_preferred_username(config_dict), or config_dict["preferred_username"] = ""
PreferredUsername(config_dict, include) ==
    [k \in DOMAIN config_dict \cup {"preferred_username"} |->
        IF k = "preferred_username" THEN (IF include THEN "u1" ELSE "")
        ELSE config_dict[k]]

\* Inputs of find_config_by_id.

BenchmarkIds == {"a", "b", "c"}

\* what a stored document may hold under "parent": the key missing, None,
\* the empty string, a stored benchmark or one that is not stored
ParentValues == BenchmarkIds \cup {Absent, NoneStr, "", "ghost"}

\* the documents of an id: named ones hold a name and a type, the others
\* None as name and no type
Documents(id) ==
    { [k \in (IF parent = Absent THEN {} ELSE {"parent"})
             \cup (IF named THEN {"_id", "name", "type"} ELSE {"_id", "name"}) |->
          IF k = "parent" THEN parent
          ELSE IF k = "_id" THEN id
          ELSE IF k = "name" THEN (IF named THEN id ELSE NoneStr)
          ELSE "abstract"]
      : parent \in ParentValues, named \in BOOLEAN }

BenchmarkStores ==
    {st \in [BenchmarkIds -> UNION {Documents(id) : id \in BenchmarkIds}] :
        \A id \in BenchmarkIds : st[id] \in Documents(id)}

NoDict == [k \in {} |-> ""]

Frame(id, include) == [id |-> id, include |-> include, dict |-> NoDict, pc |-> "lookup"]

-----------------------------------------------------------------------------
\* find_config_by_id as a state machine over its call stack.

InitFind ==
    /\ fc_store \in BenchmarkStores
    /\ fc_id \in BenchmarkIds
    /\ fc_include \in BOOLEAN
    /\ fc_stack = <<Frame(fc_id, fc_include)>>
    /\ fc_ret = <<>>
    /\ fc_lookups = 0
    /\ fc_pc = "running"
    /\ fc_out = <<>>
    /\ AggOff
    /\ TblOff
    /\ LtOff
    /\ PlOff
    /\ GiOff
    /\ RcOff

FindTop == fc_stack[Len(fc_stack)]

FindSetTop(frame) == [fc_stack EXCEPT ![Len(fc_stack)] = frame]

\* config_dict = DBUtils.find_one_by_id(...); _convert_id_from_db(config_dict)
FindLookup ==
    /\ fc_pc = "running"
    /\ FindTop.pc = "lookup"
    /\ FindTop.id \in DOMAIN fc_store
    /\ fc_stack' = FindSetTop([FindTop EXCEPT
                                  !.dict = ConvertIdFromDb(fc_store[FindTop.id]),
                                  !.pc = "parent"])
    /\ fc_lookups' = fc_lookups + 1
    /\ UNCHANGED <<fc_store, fc_id, fc_include, fc_ret, fc_pc, fc_out>>
    /\ UNCHANGED <<aggVars, tblVars, ltVars, plVars, giVars, rcVars>>

\* if not config_dict: abort_with_error_message(404, ...)
FindNotFound ==
    /\ fc_pc = "running"
    /\ FindTop.pc = "lookup"
    /\ FindTop.id \notin DOMAIN fc_store
    /\ fc_lookups' = fc_lookups + 1
    /\ fc_pc' = "aborted"
    /\ UNCHANGED <<fc_store, fc_id, fc_include, fc_stack, fc_ret, fc_out>>
    /\ UNCHANGED <<aggVars, tblVars, ltVars, plVars, giVars, rcVars>>

\* if parent_id: parent_config = BenchmarkDBUtils.find_config_by_id(parent_id)
FindRecurse ==
    /\ fc_pc = "running"
    /\ FindTop.pc = "parent"
    /\ HasParent(FindTop.dict)
    /\ Len(fc_stack) < RecursionLimit
    /\ fc_stack' = Append(FindSetTop([FindTop EXCEPT !.pc = "merge"]),
                          Frame(ParentId(FindTop.dict), TRUE))
    /\ UNCHANGED <<fc_store, fc_id, fc_include, fc_ret, fc_lookups, fc_pc, fc_out>>
    /\ UNCHANGED <<aggVars, tblVars, ltVars, plVars, giVars, rcVars>>

\* the same call when the interpreter's stack is full: RecursionError
FindRecursionError ==
    /\ fc_pc = "running"
    /\ FindTop.pc = "parent"
    /\ HasParent(FindTop.dict)
    /\ Len(fc_stack) >= RecursionLimit
    /\ fc_pc' = "raised"
    /\ UNCHANGED <<fc_store, fc_id, fc_include, fc_stack, fc_ret, fc_lookups, fc_out>>
    /\ UNCHANGED <<aggVars, tblVars, ltVars, plVars, giVars, rcVars>>

\* parent_id is None or empty: the if is skipped
FindNoParent ==
    /\ fc_pc = "running"
    /\ FindTop.pc = "parent"
    /\ ~HasParent(FindTop.dict)
    /\ fc_stack' = FindSetTop([FindTop EXCEPT !.pc = "finish"])
    /\ UNCHANGED <<fc_store, fc_id, fc_include, fc_ret, fc_lookups, fc_pc, fc_out>>
    /\ UNCHANGED <<aggVars, tblVars, ltVars, plVars, giVars, rcVars>>

\* parent_dict = parent_config.to_dict(); the child's values are laid over
\* it; config_dict = parent_dict
FindMerge ==
    /\ fc_pc = "running"
    /\ FindTop.pc = "merge"
    /\ fc_ret # <<>>
    /\ fc_stack' = FindSetTop([FindTop EXCEPT
                                  !.dict = UpdateWithNotNoneValues(ToDict(fc_ret[1]),
                                                                   FindTop.dict),
                                  !.pc = "finish"])
    /\ fc_ret' = <<>>
    /\ UNCHANGED <<fc_store, fc_id, fc_include, fc_lookups, fc_pc, fc_out>>
    /\ UNCHANGED <<aggVars, tblVars, ltVars, plVars, giVars, rcVars>>

\* the preferred username is set; return BenchmarkConfig.from_dict(config_dict)
FindReturn ==
    /\ fc_pc = "running"
    /\ FindTop.pc = "finish"
    /\ LET config == FromDict(PreferredUsername(FindTop.dict, FindTop.include))
       IN  IF Len(fc_stack) = 1
           THEN /\ fc_out' = <<config>>
                /\ fc_pc' = "returned"
                /\ UNCHANGED fc_ret
           ELSE /\ fc_ret' = <<config>>
                /\ UNCHANGED <<fc_out, fc_pc>>
    /\ fc_stack' = SubSeq(fc_stack, 1, Len(fc_stack) - 1)
    /\ UNCHANGED <<fc_store, fc_id, fc_include, fc_lookups>>
    /\ UNCHANGED <<aggVars, tblVars, ltVars, plVars, giVars, rcVars>>

NextFind ==
    \/ FindLookup
    \/ FindNotFound
    \/ FindRecurse
    \/ FindRecursionError
    \/ FindNoParent
    \/ FindMerge
    \/ FindReturn

\* the call runs on one thread: its next statement is always executed
SpecFind == InitFind /\ [][NextFind]_vars /\ WF_vars(NextFind)

-----------------------------------------------------------------------------
\* Concurrent generate_plots requests for one benchmark over one snapshot of
\* the stores.  The requests share the cached plot file and nothing else.

\* the for loop over unique_dates from the di-th date on: every way it may
\* end, the order of the derived dataset configs being that of a set
RECURSIVE Replays(_, _, _, _, _, _)
Replays(config, sys_infos, store, dates, di, json) ==
    IF di = Len(dates) THEN {[err |-> "", json |-> json]}
    ELSE UNION { UNION { UNION {
             IF orig.err # "" THEN {[err |-> orig.err, json |-> <<>>]}
             ELSE IF FirstError(dfs) # "" THEN {[err |-> FirstError(dfs), json |-> <<>>]}
             ELSE Replays(config, sys_infos, store, dates, di + 1, next)
             : next \in {IF orig.err # "" \/ FirstError(dfs) # "" THEN json
                         ELSE RecordAll(json, config, dfs, StrOfDate(dates[di + 1]), 1)} }
             : dfs \in {GenerateViewDataframes(config, orig.df, FALSE)} }
             : orig \in {LongTable(config, configs, SystemsUntil(sys_infos, dates[di + 1]),
                                   store)
                         : configs \in ResolvedConfigs(
                               config, SystemsUntil(sys_infos, dates[di + 1]))} }

\* the branch "if not plot_file" up to the write: the mapping computed, or
\* the exception
Recompute(config, sys_infos, store) ==
    IF ~config.system_query /\ Len(config.datasets) = 0
    THEN {[err |-> "ValueError", json |-> <<>>]}
    ELSE Replays(config, sys_infos, store, UniqueDates(sys_infos), 0,
                 [k \in SeriesNames(config) |-> <<>>])

\* the file as open(plot_path, "w") leaves it: it exists and is empty
Truncated == [exists |-> TRUE, head |-> <<>>, tail |-> <<>>]

NoFile == [exists |-> FALSE, head |-> <<>>, tail |-> <<>>]

\* Faulty variant: a file whose second half is not written yet is accepted
ReadBackLenient(file) ==
    IF ~file.exists THEN [err |-> "FileNotFoundError", out |-> <<>>]
    ELSE IF file.head = <<>>
         THEN [err |-> "JSONDecodeError", out |-> <<>>]
    ELSE IF file.tail = <<>> THEN [err |-> "", out |-> <<[k \in {} |-> <<>>]>>]
    ELSE [err |-> "", out |-> file.head]

\* with open(plot_path) as f: plot_data = json.load(f): the text must be one
\* whole JSON document
ReadBack(file) ==
    IF ~file.exists THEN [err |-> "FileNotFoundError", out |-> <<>>]
    ELSE IF file.head = <<>> \/ file.tail = <<>>
         THEN [err |-> "JSONDecodeError", out |-> <<>>]
    ELSE IF file.head # file.tail THEN [err |-> "", out |-> <<"mixed">>]
    ELSE [err |-> "", out |-> file.head]

\* Inputs of the concurrent requests.

Requests == 1..MaxRequests

\* the snapshots: no system, one system, two systems of one or two days
RaceHistories == {h \in Histories : Len(h) <= 2}

Idle == [pc |-> "entry", json |-> <<>>, out |-> <<>>, err |-> ""]

-----------------------------------------------------------------------------
\* The requests as a state machine: one action per step of a request.

InitRace ==
    /\ rc_config \in PlotConfigs
    /\ rc_sys_infos \in RaceHistories
    /\ rc_metas \in Stores
    /\ rc_outcomes = Recompute(rc_config, rc_sys_infos, rc_metas)
    /\ rc_file = NoFile
    /\ rc_fresh = FALSE
    /\ rc_req = [r \in Requests |-> Idle]
    /\ AggOff
    /\ TblOff
    /\ LtOff
    /\ PlOff
    /\ GiOff
    /\ FcOff

RaceSet(r, req) == rc_req' = [rc_req EXCEPT ![r] = req]

\* if config.type == "abstract": return {}
RaceAbstract(r) ==
    /\ rc_req[r].pc = "entry"
    /\ rc_config.type = "abstract"
    /\ RaceSet(r, [rc_req[r] EXCEPT !.pc = "returned", !.out = << <<>> >>])
    /\ UNCHANGED <<rc_config, rc_sys_infos, rc_metas, rc_outcomes, rc_file, rc_fresh>>
    /\ UNCHANGED <<aggVars, tblVars, ltVars, plVars, giVars, fcVars>>

\* plot_file = open_cached_file(...): the path when the file exists and is
\* younger than a second, else None
RaceCheck(r) ==
    /\ rc_req[r].pc = "entry"
    /\ rc_config.type # "abstract"
    /\ RaceSet(r, [rc_req[r] EXCEPT
                      !.pc = IF rc_file.exists /\ rc_fresh THEN "read" ELSE "compute"])
    /\ UNCHANGED <<rc_config, rc_sys_infos, rc_metas, rc_outcomes, rc_file, rc_fresh>>
    /\ UNCHANGED <<aggVars, tblVars, ltVars, plVars, giVars, fcVars>>

\* if not plot_file: sys_infos is loaded and every date is replayed
RaceCompute(r) ==
    /\ rc_req[r].pc = "compute"
    /\ \E res \in rc_outcomes :
           RaceSet(r, IF res.err # ""
                      THEN [rc_req[r] EXCEPT !.pc = "raised", !.err = res.err]
                      ELSE [rc_req[r] EXCEPT !.pc = "open", !.json = res.json])
    /\ UNCHANGED <<rc_config, rc_sys_infos, rc_metas, rc_outcomes, rc_file, rc_fresh>>
    /\ UNCHANGED <<aggVars, tblVars, ltVars, plVars, giVars, fcVars>>

\* with open(plot_path, "w") as outfile: the file is created or emptied
RaceOpen(r) ==
    /\ rc_req[r].pc = "open"
    /\ rc_file' = Truncated
    /\ rc_fresh' = TRUE
    /\ RaceSet(r, [rc_req[r] EXCEPT !.pc = "head"])
    /\ UNCHANGED <<rc_config, rc_sys_infos, rc_metas, rc_outcomes>>
    /\ UNCHANGED <<aggVars, tblVars, ltVars, plVars, giVars, fcVars>>

\* json.dump(json_dict, outfile): the first half of the text reaches the file
RaceDumpHead(r) ==
    /\ rc_req[r].pc = "head"
    /\ rc_file' = [rc_file EXCEPT !.exists = TRUE, !.head = <<rc_req[r].json>>]
    /\ rc_fresh' = TRUE
    /\ RaceSet(r, [rc_req[r] EXCEPT !.pc = "tail"])
    /\ UNCHANGED <<rc_config, rc_sys_infos, rc_metas, rc_outcomes>>
    /\ UNCHANGED <<aggVars, tblVars, ltVars, plVars, giVars, fcVars>>

\* the second half, at this writer's own offset, and the file is closed
RaceDumpTail(r) ==
    /\ rc_req[r].pc = "tail"
    /\ rc_file' = [rc_file EXCEPT !.exists = TRUE, !.tail = <<rc_req[r].json>>]
    /\ rc_fresh' = TRUE
    /\ RaceSet(r, [rc_req[r] EXCEPT !.pc = "read"])
    /\ UNCHANGED <<rc_config, rc_sys_infos, rc_metas, rc_outcomes>>
    /\ UNCHANGED <<aggVars, tblVars, ltVars, plVars, giVars, fcVars>>

\* with open(plot_path) as f: plot_data = json.load(f); return plot_data
RaceRead(r) ==
    /\ rc_req[r].pc = "read"
    /\ LET res == ReadBack(rc_file)
       IN  RaceSet(r, IF res.err # ""
                      THEN [rc_req[r] EXCEPT !.pc = "raised", !.err = res.err]
                      ELSE [rc_req[r] EXCEPT !.pc = "returned", !.out = res.out])
    /\ UNCHANGED <<rc_config, rc_sys_infos, rc_metas, rc_outcomes, rc_file, rc_fresh>>
    /\ UNCHANGED <<aggVars, tblVars, ltVars, plVars, giVars, fcVars>>

\* a second passes without a write to the file
RaceAge ==
    /\ rc_file.exists
    /\ rc_fresh
    /\ rc_fresh' = FALSE
    /\ UNCHANGED <<rc_config, rc_sys_infos, rc_metas, rc_outcomes, rc_file, rc_req>>
    /\ UNCHANGED <<aggVars, tblVars, ltVars, plVars, giVars, fcVars>>

\* a further request for the same benchmark arrives
RaceRequest(r) ==
    /\ rc_req[r].pc \in {"returned", "raised"}
    /\ RaceSet(r, Idle)
    /\ UNCHANGED <<rc_config, rc_sys_infos, rc_metas, rc_outcomes, rc_file, rc_fresh>>
    /\ UNCHANGED <<aggVars, tblVars, ltVars, plVars, giVars, fcVars>>

NextRace ==
    \/ \E r \in Requests : RaceAbstract(r)
    \/ \E r \in Requests : RaceCheck(r)
    \/ \E r \in Requests : RaceCompute(r)
    \/ \E r \in Requests : RaceOpen(r)
    \/ \E r \in Requests : RaceDumpHead(r)
    \/ \E r \in Requests : RaceDumpTail(r)
    \/ \E r \in Requests : RaceRead(r)
    \/ RaceAge
    \/ \E r \in Requests : RaceRequest(r)

SpecRace == InitRace /\ [][NextRace]_vars

-----------------------------------------------------------------------------
\* Properties of aggregate_view (checked under SpecAgg).

AggDone == agg_pc \in {"returned", "raised"}
HasUnknownOp == \E k \in 1..Len(view_spec) : view_spec[k].op \notin SupportedOps
FirstUnknown ==
    CHOOSE k \in 1..Len(view_spec) :
        /\ view_spec[k].op \notin SupportedOps
        /\ \A j \in 1..(k - 1) : view_spec[j].op \in SupportedOps

\* C5 as stated: every view that lists an unknown op ends in an error,
\* whatever the input table; no table is returned.
C5_UnknownOpAlwaysRaises ==
    (HasUnknownOp /\ AggDone) => agg_pc = "raised"

\* C5 (amended): for a non-empty input table, a view that lists an unknown
\* op never returns a table: the run stops with an exception no later than
\* at the first unknown op, where the exception is the ValueError; an empty
\* input table is returned as is without looking at the operations.
C5_UnknownOpRaisesOnNonEmpty ==
    /\ (HasUnknownOp /\ ~IsEmpty(input_df)) =>
          /\ agg_pc # "returned"
          /\ op_i < FirstUnknown
          /\ (agg_pc = "raised" /\ op_i + 1 = FirstUnknown) => agg_err = "ValueError"
    /\ (HasUnknownOp /\ IsEmpty(input_df) /\ AggDone) =>
          (agg_pc = "returned" /\ output_df = input_df)

\* C5 witness: the ValueError is raised at an unknown op after an earlier
\* operation of the view ran.
C5_Witness ==
    /\ HasUnknownOp
    /\ ~IsEmpty(input_df)
    /\ agg_pc = "raised"
    /\ agg_err = "ValueError"
    /\ op_i = 1
    /\ FirstUnknown = 2

AllSupported == \A k \in 1..Len(view_spec) : view_spec[k].op \in SupportedOps

\* C6 as stated: after every operation and in the returned table no cell
\* is NaN/null (the input tables are NaN-free).
C6_NoNullEver ==
    (AllSupported /\ agg_pc \in {"loop", "returned"}) => ~AnyNull(output_df)

\* C6 (amended): a NaN/null cell produced by an operation other than
\* add_default is replaced with 0 before the next operation runs and before
\* the table is returned; the rows add_default appends keep NaN in every
\* column but the target column and score until another operation has run,
\* so the returned table is NaN-free when the last operation is not
\* add_default.
C6_NoNullUnlessAddDefaultLast ==
    /\ (agg_pc = "loop" /\ op_i >= 1 /\ view_spec[op_i].op # "add_default") =>
          ~AnyNull(output_df)
    /\ (agg_pc = "returned" /\ ~IsEmpty(input_df)
          /\ (Len(view_spec) = 0 \/ view_spec[Len(view_spec)].op # "add_default")) =>
          ~AnyNull(output_df)

\* C6 witness: a gini over a zero-mean column has produced NaN (0/0) and the
\* table the next operation sees holds 0 instead.
C6_Witness ==
    /\ agg_pc = "loop"
    /\ op_i >= 1
    /\ view_spec[op_i].op = "gini"
    /\ IsNull(GiniCells(ColValues(prev_df, "score")))
    /\ output_df.rows[1]["score"] = N(0)

\* number of rows of df holding cell v in column c
CountIn(df, c, v) == Cardinality({i \in 1..Len(df.rows) : df.rows[i][c] = v})

JustAdded == agg_pc = "loop" /\ op_i >= 1 /\ view_spec[op_i].op = "add_default"

\* C7: an add_default leaves the existing rows as they are and appends
\* exactly one score-0 row per default value absent from the target column;
\* a second add_default right after the first appends nothing.
C7_AddDefaultIdempotent ==
    JustAdded =>
        LET col == view_spec[op_i].column
            n == Len(prev_df.rows)
        IN  /\ output_df.cols = prev_df.cols
            /\ SubSeq(output_df.rows, 1, n) = prev_df.rows
            /\ \A k \in 1..Len(ALL_LANG) :
                   CountIn(output_df, col, S(ALL_LANG[k]))
                     = IF CountIn(prev_df, col, S(ALL_LANG[k])) = 0 THEN 1
                       ELSE CountIn(prev_df, col, S(ALL_LANG[k]))
            /\ \A i \in (n + 1)..Len(output_df.rows) :
                   /\ output_df.rows[i]["score"] = N(0)
                   /\ \E k \in 1..Len(ALL_LANG) : output_df.rows[i][col] = S(ALL_LANG[k])
            /\ (op_i >= 2 /\ view_spec[op_i - 1] = view_spec[op_i]) =>
                   output_df = prev_df

\* C7 witness: the first add_default appended rows and the second one, run
\* right after it, has run too.
C7_Witness ==
    /\ JustAdded
    /\ op_i = 2
    /\ view_spec[1] = view_spec[2]
    /\ Len(prev_df.rows) > Len(input_df.rows)
    /\ output_df = prev_df

TwoSubtracts ==
    /\ Len(view_spec) = 2
    /\ view_spec[1].op = "subtract"
    /\ view_spec[2] = view_spec[1]

SameRowsButScore ==
    /\ Len(output_df.rows) = Len(input_df.rows)
    /\ \A i \in 1..Len(input_df.rows) :
           \A c \in SeqSet(ObjectColsOf(input_df)) :
               output_df.rows[i][c] = input_df.rows[i][c]

\* the subtraction c - x is exact in the floating-point format
ExactDiff(c, x) == FRound(c - x) = c - x

\* C8 as stated: two subtracts with the same constant return every row's
\* original score, the rows in the same order.
C8_SubtractInvolutive ==
    (TwoSubtracts /\ agg_pc = "returned") =>
        /\ SameRowsButScore
        /\ \A i \in 1..Len(input_df.rows) :
               output_df.rows[i]["score"] = input_df.rows[i]["score"]

\* C8 (amended): two subtracts with the same constant c return the rows in
\* the same order, and a row's original score x whenever the first
\* subtraction c - x is exact; when c - x is rounded the result can differ
\* from x.
C8_SubtractInvolutiveWhenExact ==
    (TwoSubtracts /\ agg_pc = "returned") =>
        /\ SameRowsButScore
        /\ \A i \in 1..Len(input_df.rows) :
               ExactDiff(view_spec[1].num, input_df.rows[i]["score"].num) =>
                   output_df.rows[i]["score"] = input_df.rows[i]["score"]

\* C8 witness: both subtracts ran on a table with a non-zero score and the
\* table was returned with that score restored.
C8_Witness ==
    /\ TwoSubtracts
    /\ agg_pc = "returned"
    /\ Len(input_df.rows) = 2
    /\ input_df.rows[1]["score"] = N(3)
    /\ prev_df.rows[1]["score"] = N(1 - 3)
    /\ output_df.rows[1]["score"] = N(3)

PrunedInput ==
    /\ output_df.cols = ObjectColsOf(input_df) \o <<"score">>
    /\ Len(output_df.rows) = Len(input_df.rows)
    /\ \A i \in 1..Len(input_df.rows) :
           \A c \in SeqSet(output_df.cols) : output_df.rows[i][c] = input_df.rows[i][c]
    /\ \A c \in SeqSet(output_df.cols) : c = "score" \/ c \in ObjectCols

\* C9 as stated: with no operations, every input table is returned with the
\* same rows and only the object columns and score.
C9_EmptyViewPrunes ==
    (Len(view_spec) = 0 /\ agg_pc = "returned") => PrunedInput

\* C9 (amended): with no operations, every non-empty input table is returned
\* with the same rows and only the object columns and score; an empty input
\* table is returned as is, with all its columns.
C9_EmptyViewPrunesNonEmpty ==
    (Len(view_spec) = 0 /\ agg_pc = "returned") =>
        IF IsEmpty(input_df) THEN output_df = input_df ELSE PrunedInput

\* C9 witness: a table with the numeric column metric_weight came back
\* without it.
C9_Witness ==
    /\ Len(view_spec) = 0
    /\ agg_pc = "returned"
    /\ Len(input_df.rows) = 2
    /\ HasCol(input_df, "metric_weight")
    /\ ~HasCol(output_df, "metric_weight")

\* the operation the loop is at is a gini with a non-empty effective group key
GroupedGini(operation) ==
    operation.op = "gini" /\ GroupKey(operation, by_creator) # <<>>

\* C14: a gini operation with a non-empty effective group key does not
\* fail; the working table after it holds the Gini coefficient of every
\* numeric column over all rows of the table before it.
C14_GroupedGiniIgnoresGrouping ==
    /\ (agg_pc = "raised" => ~GroupedGini(view_spec[op_i + 1]))
    /\ (agg_pc = "loop" /\ op_i > 0 /\ GroupedGini(view_spec[op_i])) =>
           output_df = StampOverall(Sanitize(SeriesReduce(prev_df, "gini")), by_creator)

\* the loop has just completed a reducing operation
JustReduced ==
    /\ agg_pc = "loop"
    /\ op_i > 0
    /\ view_spec[op_i].op \in ReduceOps \cup {"weighted_sum"}

IdentityCol == IF by_creator THEN "creator" ELSE "system_name"

\* the keys of the rows of a table, and those without a missing component
KeysOf(df, gb) == {KeyOf(df.rows[i], gb) : i \in 1..Len(df.rows)}
FullKeysOf(df, gb) == {k \in KeysOf(df, gb) : \A j \in 1..Len(gb) : ~IsNull(k[j])}

\* the working table holds the group-key columns as ordinary columns and
\* exactly one row for every key of keys
OneRowPerKey(gb, keys) ==
    /\ SeqSet(gb) \subseteq ColSet(output_df)
    /\ KeysOf(output_df, gb) = keys
    /\ Len(output_df.rows) = Cardinality(keys)

\* C18 as stated: after a reducing operation with an empty effective group
\* key the working table is one row stamped "Overall" in the identity
\* column; with a non-empty key it holds one row per distinct key of the
\* table before the operation, the keys being ordinary columns; in both
\* cases it has a score column.
C18_ReducedTableShape ==
    JustReduced =>
        LET gb == GroupKey(view_spec[op_i], by_creator)
        IN  /\ HasCol(output_df, "score")
            /\ gb = <<>> =>
                   /\ Len(output_df.rows) = 1
                   /\ HasCol(output_df, IdentityCol)
                   /\ output_df.rows[1][IdentityCol] = S("Overall")
            /\ gb # <<>> => OneRowPerKey(gb, KeysOf(prev_df, gb))

\* C18, amended: a reducing operation that completes is not a gini with a
\* non-empty key, and with a non-empty key there is one row per distinct
\* key that has no missing component.
C18_ReducedTableShapeFullKeys ==
    JustReduced =>
        LET gb == GroupKey(view_spec[op_i], by_creator)
        IN  /\ ~GroupedGini(view_spec[op_i])
            /\ HasCol(output_df, "score")
            /\ gb = <<>> =>
                   /\ Len(output_df.rows) = 1
                   /\ HasCol(output_df, IdentityCol)
                   /\ output_df.rows[1][IdentityCol] = S("Overall")
            /\ gb # <<>> => OneRowPerKey(gb, FullKeysOf(prev_df, gb))

\* a grouped reduction of a table that holds rows without a key (appended
\* by add_default) next to rows with one, and an ungrouped one
C18_Witness ==
    /\ JustReduced
    /\ GroupKey(view_spec[op_i], by_creator) # <<>>
    /\ FullKeysOf(prev_df, GroupKey(view_spec[op_i], by_creator))
           # KeysOf(prev_df, GroupKey(view_spec[op_i], by_creator))
    /\ Len(output_df.rows) >= 1

\* every operation of the view is a subtract or a multiply
OnlyFlatOps ==
    \A k \in 1..Len(view_spec) : view_spec[k].op \in {"subtract", "multiply"}

\* C21: on a non-empty table a view of k consecutive subtract or multiply
\* operations completes for every k: the index-restoring step after each
\* operation never fails because of the index columns the earlier ones
\* left behind.
C21_RestoringIndexNeverFails ==
    (OnlyFlatOps /\ ~IsEmpty(input_df)) => agg_pc # "raised"

-----------------------------------------------------------------------------
\* Properties of dataframe_to_table (checked under SpecTable).

\* the input rows that map to row label r and column label c
RowsFor(r, c) ==
    {i \in 1..Len(tbl_df.rows) :
        /\ tbl_df.rows[i]["system_name"] = S(r)
        /\ RowColNames(tbl_df, "system_name")[i] = c}

Max(ns) == CHOOSE n \in ns : \A k \in ns : k <= n

\* C10: for a non-empty input table the returned rows are in non-increasing
\* order of the first column's score, the row labels are exactly the
\* distinct values of the row column, and a cell holds 0.0 unless an input
\* row maps to it, in which case it holds the score of the last such row.
C10_TableSortedDense ==
    (tbl_pc = "done" /\ Len(tbl_df.rows) > 0) =>
        /\ \A i \in 1..(Len(tbl_out.scores) - 1) :
               tbl_out.scores[i][1].num >= tbl_out.scores[i + 1][1].num
        /\ SeqSet(tbl_out.system_names)
             = {tbl_df.rows[i]["system_name"].str : i \in 1..Len(tbl_df.rows)}
        /\ Len(tbl_out.system_names) = Cardinality(SeqSet(tbl_out.system_names))
        /\ Len(tbl_out.scores) = Len(tbl_out.system_names)
        /\ \A i \in 1..Len(tbl_out.system_names) :
               \A j \in 1..Len(tbl_out.column_names) :
                   LET hits == RowsFor(tbl_out.system_names[i], tbl_out.column_names[j])
                   IN  tbl_out.scores[i][j]
                         = IF hits = {} THEN N(0)
                           ELSE tbl_df.rows[Max(hits)]["score"]

\* C10 witness: two rows came out in an order other than the sorted labels',
\* one cell was written twice and one cell kept its default.
C10_Witness ==
    /\ tbl_pc = "done"
    /\ tbl_out.system_names = <<"sysB", "sysA">>
    /\ Len(tbl_out.column_names) = 2
    /\ tbl_out.scores[1][1].num > tbl_out.scores[2][1].num
    /\ \E i \in 1..2 : \E j \in 1..2 :
           /\ Cardinality(RowsFor(tbl_out.system_names[i], tbl_out.column_names[j])) = 2
           /\ tbl_df.rows[1]["score"] # tbl_df.rows[2]["score"]
    /\ \E i \in 1..2 : \E j \in 1..2 :
           RowsFor(tbl_out.system_names[i], tbl_out.column_names[j]) = {}

-----------------------------------------------------------------------------
\* Properties of generate_dataframe_from_sys_infos (checked under SpecLong).

LtNames == SystemNames(lt_kept)

\* the system named name has a submission for some listed dataset but none
\* for the di-th one
EmptySlot(name, di) ==
    /\ Len(lt_config.datasets) > 0
    /\ name \in SeqSet(LtNames)
    /\ di \in 1..Len(lt_configs)
    /\ \A i \in 1..Len(lt_kept) :
           lt_kept[i].system_name = name =>
               SystemKey(lt_kept[i]) # ConfigKey(lt_configs[di])

\* the metrics that apply to the di-th dataset config
MetricsOf(di) ==
    IF lt_configs[di].metrics.set THEN lt_configs[di].metrics.list
    ELSE lt_config.metrics.list

HasMetrics(di) == lt_configs[di].metrics.set \/ lt_config.metrics.set

\* the creator of the last retained system called name
KnownCreator(name) ==
    LET hits == {i \in 1..Len(lt_kept) : lt_kept[i].system_name = name}
    IN  lt_kept[Max(hits)].creator

\* a row (name, dataset of di, metric) with the default score and the creator
DefaultRowEmitted(name, di, metric) ==
    \E r \in 1..Len(lt_rows) :
        /\ lt_rows[r]["system_name"] = S(name)
        /\ lt_rows[r]["dataset_name"] = S(lt_configs[di].dataset_name)
        /\ lt_rows[r]["metric"] = S(metric.name)
        /\ lt_rows[r]["score"] = (IF IsNull(metric.default) THEN N(0) ELSE metric.default)
        /\ lt_rows[r]["creator"] = S(KnownCreator(name))

\* C3 as stated: whenever a table is returned, every system without a
\* submission for a listed dataset has, for every metric of that dataset, a
\* row with the metric's default score and the system's creator.
C3_DefaultRowNeverMissing ==
    lt_pc = "returned" =>
        \A name \in SeqSet(LtNames) : \A di \in 1..Len(lt_configs) :
            (EmptySlot(name, di) /\ HasMetrics(di)) =>
                \A k \in 1..Len(MetricsOf(di)) :
                    DefaultRowEmitted(name, di, MetricsOf(di)[k])

\* C3 amended: the default row is emitted provided the metadata lookup of
\* that dataset succeeded; a dataset name whose lookups all failed has no
\* row at all in the returned table.
C3_DefaultRowWhenMetadataFound ==
    lt_pc = "returned" =>
        /\ \A name \in SeqSet(LtNames) : \A di \in 1..Len(lt_configs) :
               (EmptySlot(name, di) /\ HasMetrics(di) /\ lt_metas[di].found) =>
                   \A k \in 1..Len(MetricsOf(di)) :
                       DefaultRowEmitted(name, di, MetricsOf(di)[k])
        /\ \A di \in 1..Len(lt_configs) :
               (\A dj \in 1..Len(lt_configs) :
                    lt_configs[dj].dataset_name = lt_configs[di].dataset_name
                        => ~lt_metas[dj].found)
               => \A r \in 1..Len(lt_rows) :
                      lt_rows[r]["dataset_name"] # S(lt_configs[di].dataset_name)

\* C3 witness: a benchmark listing d1 and d2, a system submitted for d1
\* only, d2's metadata found, and the default row of d2 in the table.
C3_Witness ==
    /\ lt_pc = "returned"
    /\ Len(lt_configs) = 2
    /\ lt_configs[2].dataset_name = "d2"
    /\ EmptySlot("sysA", 2)
    /\ ~EmptySlot("sysA", 1)
    /\ lt_metas[2].found
    /\ HasMetrics(2)
    /\ Len(MetricsOf(2)) > 0
    /\ \A k \in 1..Len(MetricsOf(2)) : DefaultRowEmitted("sysA", 2, MetricsOf(2)[k])

\* some resolved dataset config has no metrics, locally or globally
SomeDatasetWithoutMetrics ==
    \E di \in 1..Len(lt_configs) : ~HasMetrics(di)

\* C4 as stated: once the dataset configs are resolved and one of them has
\* no metrics locally or globally, the function never returns a table.
C4_NoMetricsAlwaysRaises ==
    (lt_pc \notin {"entry", "off"} /\ SomeDatasetWithoutMetrics) => lt_pc # "returned"

\* the row loop meets a dataset without metrics whose metadata was found
ReachesDatasetWithoutMetrics ==
    /\ Len(LtNames) > 0
    /\ \E di \in 1..Len(lt_configs) : lt_metas[di].found /\ ~HasMetrics(di)

\* C4 amended: the function raises exactly when at least one system is
\* retained and some dataset config whose metadata was found has no metrics
\* locally or globally; otherwise it returns a table.  The exception is a
\* ValueError when that dataset config holds the sub_dataset and
\* dataset_split keys and a KeyError when it lacks one of them.
C4_RaisesWhenLoopReachesNoMetrics ==
    /\ lt_pc = "returned" => ~ReachesDatasetWithoutMetrics
    /\ lt_pc = "raised" =>
           /\ ReachesDatasetWithoutMetrics
           /\ lt_metas[lt_di].found /\ ~HasMetrics(lt_di)
           /\ lt_err = IF lt_configs[lt_di].sub_dataset # Absent
                          /\ lt_configs[lt_di].dataset_split # Absent
                       THEN "ValueError" ELSE "KeyError"

\* C4 witness: the ValueError was raised for a dataset config without
\* metrics while another dataset's rows were already built.
C4_Witness ==
    /\ lt_pc = "raised"
    /\ lt_err = "ValueError"
    /\ ~HasMetrics(lt_di)
    /\ Len(lt_rows) > 0

\* the values the system records under the metric's name, on any level
Recorded(sys, metric) ==
    {sys.results[i][2] : i \in {j \in 1..Len(sys.results) : sys.results[j][1] = metric.name}}

\* the system occupies the slot of the di-th dataset config
Occupies(i, di) ==
    /\ SystemKey(lt_kept[i]) = ConfigKey(lt_configs[di])
    /\ \A j \in (di + 1)..Len(lt_configs) : ConfigKey(lt_configs[j]) # ConfigKey(lt_configs[di])
    /\ \A j \in (i + 1)..Len(lt_kept) :
           lt_kept[j].system_name = lt_kept[i].system_name =>
               SystemKey(lt_kept[j]) # SystemKey(lt_kept[i])

\* C13: in the returned table the row of a submitted system for a metric of
\* its dataset holds the greatest value recorded under the metric's name when
\* some level records it, and the metric's default (0.0 without one) only
\* when no level does.
C13_ScoreIsMaxOverLevels ==
    lt_pc = "returned" =>
        \A i \in 1..Len(lt_kept) : \A di \in 1..Len(lt_configs) :
            (Occupies(i, di) /\ lt_metas[di].found /\ HasMetrics(di)) =>
                \A k \in 1..Len(MetricsOf(di)) :
                    LET metric == MetricsOf(di)[k]
                        values == Recorded(lt_kept[i], metric)
                        expected == IF values # {} THEN N(Max(values))
                                    ELSE IF IsNull(metric.default) THEN N(0)
                                    ELSE metric.default
                    IN  \E r \in 1..Len(lt_rows) :
                            /\ lt_rows[r]["system_name"] = S(lt_kept[i].system_name)
                            /\ lt_rows[r]["dataset_name"] = S(lt_configs[di].dataset_name)
                            /\ lt_rows[r]["metric"] = S(metric.name)
                            /\ lt_rows[r]["creator"] = S(lt_kept[i].creator)
                            /\ lt_rows[r]["score"] = expected

\* the lookups as they would be had every one of them succeeded, the failed
\* ones answered with languages
Succeeded(languages) ==
    [di \in 1..Len(lt_metas) |->
        IF lt_metas[di].found THEN lt_metas[di]
        ELSE [found |-> TRUE, languages |-> languages]]

\* the rows the run with the lookups metas emits for the dataset configs
\* whose lookup did succeed in this run, from the slot (si, di) on
RECURSIVE RowsOfFound(_, _, _)
RowsOfFound(metas, si, di) ==
    IF si > Len(LtNames) THEN <<>>
    ELSE LET here == IF lt_metas[di].found
                     THEN [k \in 1..Len(MetricsOf(di)) |->
                              LongRow(LongTableCols(lt_config, lt_configs), lt_kept,
                                      lt_configs[di], metas[di], MetricsOf(di),
                                      Slot(lt_configs, lt_kept, LtNames[si], di),
                                      LtNames[si], k)]
                     ELSE <<>>
         IN  here \o (IF di < Len(lt_configs) THEN RowsOfFound(metas, si, di + 1)
                      ELSE RowsOfFound(metas, si + 1, 1))

\* the rows of a table that do not name a dataset whose lookup failed
NotOfMissing(rows) ==
    SelectSeq(rows, LAMBDA r :
        \A di \in 1..Len(lt_configs) :
            lt_metas[di].found \/ r["dataset_name"] # S(lt_configs[di].dataset_name))

SomeLookupFailed == \E di \in 1..Len(lt_metas) : ~lt_metas[di].found

\* C17 as stated: a failed metadata lookup does not abort the builder; the
\* returned table holds for every other dataset config exactly the rows it
\* would hold had the lookup succeeded, and for the dataset whose lookup
\* failed a row with the default score for every system and metric.
C17_MissingMetadataKeepsDefaults ==
    /\ lt_pc = "raised" => lt_metas[lt_di].found
    /\ (lt_pc = "returned" /\ SomeLookupFailed) =>
           /\ \A a \in {x \in LookupAnswers : x.found} :
                  NotOfMissing(lt_rows) = NotOfMissing(RowsOfFound(Succeeded(a.languages), 1, 1))
           /\ \A name \in SeqSet(LtNames) : \A di \in 1..Len(lt_configs) :
                  (~lt_metas[di].found /\ HasMetrics(di)) =>
                      \A k \in 1..Len(MetricsOf(di)) :
                          DefaultRowEmitted(name, di, MetricsOf(di)[k])

\* C17 amended: a failed metadata lookup does not abort the builder; the
\* returned table is exactly the rows the other dataset configs would have
\* had the lookup succeeded, and nothing else: the dataset config whose
\* lookup failed contributes no row.
C17_MissingMetadataSkipsDataset ==
    /\ lt_pc = "raised" => lt_metas[lt_di].found
    /\ (lt_pc = "returned" /\ SomeLookupFailed) =>
           \A a \in {x \in LookupAnswers : x.found} :
               lt_rows = RowsOfFound(Succeeded(a.languages), 1, 1)

\* C17 witness: d1 and d2 listed, d1's lookup failed and d2's succeeded, a
\* system submitted for both, and the table returned holds rows of d2 only.
C17_Witness ==
    /\ lt_pc = "returned"
    /\ Len(lt_configs) = 2
    /\ lt_configs[1].dataset_name = "d1" /\ lt_configs[2].dataset_name = "d2"
    /\ ~lt_metas[1].found /\ lt_metas[2].found
    /\ ~EmptySlot("sysA", 1) /\ ~EmptySlot("sysA", 2)
    /\ Len(lt_rows) > 0
    /\ \A r \in 1..Len(lt_rows) : lt_rows[r]["dataset_name"] = S("d2")

\* the i-th system is one load_sys_infos requests for the e-th dataset entry
Requested(i, e) == SystemKey(lt_systems[i]) = RequestKey(lt_config.datasets[e])

\* C20: for a benchmark that lists datasets, the loader and the builder
\* derive the same key from every entry: a system requested for an entry
\* is retained by the builder's filter and fills the slot of an entry with
\* that key.
C20_LoaderAndBuilderAgreeOnKey ==
    (lt_pc \notin {"off", "entry"} /\ Len(lt_config.datasets) > 0) =>
        \A e \in 1..Len(lt_config.datasets) :
            /\ RequestKey(lt_config.datasets[e]) = ConfigKey(lt_configs[e])
            /\ \A i \in 1..Len(lt_systems) :
                   Requested(i, e) =>
                       /\ lt_systems[i] \in SeqSet(lt_kept)
                       /\ Slot(lt_configs, lt_kept, lt_systems[i].system_name,
                               DatasetToId(lt_configs, SystemKey(lt_systems[i]))) # <<>>

-----------------------------------------------------------------------------
\* Properties of generate_plots (checked under SpecPlots).

\* the views whose trend is "increase" or unset
IncreaseViews ==
    {i \in 1..Len(pl_config.views) : pl_config.views[i].trend \in {"", "increase"}}

\* the scores of a series, in the order they were recorded
ScoresOf(series) == [i \in 1..Len(series) |-> series[i][2]]

\* the greatest score of the table built for the i-th view on this date
MaxOfView(i) ==
    LET scores == pl_dfs[i].res.df.rows
        best == CHOOSE r \in 1..Len(scores) :
                    \A q \in 1..Len(scores) :
                        ~FLess(scores[r]["score"], scores[q]["score"])
    IN  IF Len(scores) = 0 THEN NaN ELSE scores[best]["score"]

\* a date was just replayed for the series of the i-th view
RecordedIffImproved(i) ==
    LET k == pl_config.views[i].name
        old == pl_json[k]
        point == <<[iso |-> pl_dates[pl_di + 1]], MaxOfView(i)>>
        improved == Len(old) = 0 \/ FLess(old[Len(old)][2], MaxOfView(i))
    IN  pl_json'[k] = IF improved THEN Append(old, point) ELSE old

\* C1: replaying a date records a point for an `increase` (or unset) view
\* if and only if the view has no point yet or the date's view-max is
\* strictly greater than the last recorded score; so the first date is
\* always recorded, the recorded scores are strictly increasing, and the
\* max sequence 1, 1, 3, 2, 4 records exactly 1, 3, 4.
C1_IncreaseRecordsStrictImprovements ==
    /\ [][(pl_pc = "record" /\ pl_pc' = "dates") =>
              \A i \in IncreaseViews : RecordedIffImproved(i)]_vars
    /\ [](pl_di >= 1 =>
              \A i \in IncreaseViews :
                  LET series == pl_json[pl_config.views[i].name]
                  IN  /\ Len(series) >= 1
                      /\ series[1][1] = [iso |-> pl_dates[1]]
                      /\ \A a \in 1..(Len(series) - 1) :
                             FLess(series[a][2], series[a + 1][2]))
    /\ []((pl_pc = "returned" /\ pl_di = 5 /\ pl_config.views = PlotViews
              /\ ScoresOf(pl_json["mean"]) = <<N(1), N(1), N(3), N(2), N(4)>>)
              => ScoresOf(pl_json["latest"]) = <<N(1), N(3), N(4)>>)

\* C1 witness: the replay of five dates whose view-max was 1, 1, 3, 2, 4
\* returned the points of the first, third and fifth date.
C1_Witness ==
    /\ pl_pc = "returned"
    /\ pl_di = 5
    /\ pl_config.views = PlotViews
    /\ ScoresOf(pl_json["mean"]) = <<N(1), N(1), N(3), N(2), N(4)>>
    /\ pl_json["latest"] = << <<[iso |-> 1], N(1)>>, <<[iso |-> 3], N(3)>>,
                             <<[iso |-> 5], N(4)>> >>

\* generate_plots recomputed the series and returned them
Recomputed == pl_pc = "returned" /\ DOMAIN pl_json # {} /\ pl_out = <<pl_json>>

\* C2 as stated: after a recomputation over N distinct dates the "Original"
\* series holds N points, one per date in ascending order.
C2_OriginalHoldsEveryDate ==
    Recomputed =>
        /\ Len(pl_out[1]["Original"]) = Len(pl_dates)
        /\ \A i \in 1..Len(pl_dates) : pl_out[1]["Original"][i][1] = [iso |-> pl_dates[i]]

\* C2 amended: the "Original" series is registered under the mode
\* "original", which neither branch of the replay handles, so after a
\* recomputation over any number of dates it holds no point.
C2_OriginalStaysEmpty ==
    Recomputed => pl_out[1]["Original"] = <<>>

\* C2 witness: a recomputation over three dates returned three points for
\* the `all` view and none for "Original".
C2_Witness ==
    /\ Recomputed
    /\ Len(pl_dates) = 3
    /\ pl_config.views = PlotViews
    /\ Len(pl_out[1]["mean"]) = 3
    /\ pl_out[1]["Original"] = <<>>

\* the views whose trend is "all"
AllViews == {i \in 1..Len(pl_config.views) : pl_config.views[i].trend = "all"}

\* the positions in sys_infos of the systems created on or before date
CreatedUntil(date) ==
    {j \in 1..Len(pl_sys_infos) : pl_sys_infos[j].created_at <= date}

\* C16: on a cache miss the series of a view in mode `all` holds one point
\* per distinct submission date replayed so far, in ascending date order
\* (all of them when the replay has returned); the point of a date is the
\* view-max of the view's table built from exactly the systems created on
\* or before that date; the systems used for a date include those used for
\* every earlier date.
C16_AllRecordsEveryDate ==
    /\ [](DOMAIN pl_json # {} =>
             /\ {pl_dates[a] : a \in 1..Len(pl_dates)}
                    = {pl_sys_infos[j].created_at : j \in 1..Len(pl_sys_infos)}
             /\ \A a, b \in 1..Len(pl_dates) : a < b =>
                    /\ pl_dates[a] < pl_dates[b]
                    /\ CreatedUntil(pl_dates[a]) \subseteq CreatedUntil(pl_dates[b])
             /\ Recomputed => pl_di = Len(pl_dates)
             /\ \A i \in AllViews :
                    LET series == pl_json[pl_config.views[i].name]
                    IN  /\ Len(series) = pl_di
                        /\ \A a \in 1..pl_di : series[a][1] = [iso |-> pl_dates[a]])
    /\ [](pl_pc = "record" =>
             LET systems == SelectSeq(pl_sys_infos,
                                LAMBDA sys : sys.created_at <= pl_dates[pl_di + 1])
             IN  /\ \E configs \in ResolvedConfigs(pl_config, systems) :
                        pl_orig = LongTable(pl_config, configs, systems, pl_metas)
                 /\ \A i \in AllViews :
                        pl_dfs[i].res = AggregateView(pl_orig.df, pl_config.views[i], FALSE))
    /\ [][(pl_pc = "record" /\ pl_pc' = "dates") =>
              \A i \in AllViews :
                  pl_json'[pl_config.views[i].name]
                      = Append(pl_json[pl_config.views[i].name],
                               <<[iso |-> pl_dates[pl_di + 1]], MaxOfView(i)>>)]_vars

\* C16 witness: a recomputation over two dates, two systems submitted on the
\* first and a better one on the second, returned both points of the `all`
\* view.
C16_Witness ==
    /\ Recomputed
    /\ pl_config.views = PlotViews
    /\ Len(pl_dates) = 2
    /\ Cardinality(CreatedUntil(pl_dates[1])) = 2
    /\ Cardinality(CreatedUntil(pl_dates[2])) = 3
    /\ pl_out[1]["mean"] = << <<[iso |-> 1], N(1)>>, <<[iso |-> 2], N(2)>> >>

-----------------------------------------------------------------------------
\* Properties of _gini (checked under SpecGini).

\* the values of the column of the k-th coefficient computed so far
GiniInput(k) == [i \in 1..Len(gi_df.rows) |-> gi_df.rows[i][gi_data[k][1]].num]

RECURSIVE IntSum(_)
IntSum(ns) == IF Len(ns) = 0 THEN 0 ELSE ns[1] + IntSum(Tail(ns))

NonFinite(c) == IsNull(c) \/ IsInf(c)

\* C11: the coefficient of a column of n >= 2 equal values x > 0 is 0.
C11_GiniOfEqualValuesIsZero ==
    \A k \in 1..Len(gi_data) :
        LET xs == GiniInput(k)
        IN  (Len(xs) >= 2 /\ xs[1] > 0 /\ \A i \in 1..Len(xs) : xs[i] = xs[1])
                => gi_data[k][2] = N(0)

\* C11 witness: _gini returned 0 for a score column of three equal values 3.
C11_Witness ==
    /\ gi_pc = "returned"
    /\ \E k \in 1..Len(gi_data) :
           /\ gi_data[k][1] = "score"
           /\ GiniInput(k) = <<3, 3, 3>>
           /\ gi_data[k][2] = N(0)

\* C15 as stated: a column whose mean is 0 and a column with a single row
\* both give a non-finite coefficient.
C15_GiniDegenerateNonFinite ==
    \A k \in 1..Len(gi_data) :
        LET xs == GiniInput(k)
        IN  (Len(xs) = 1 \/ (Len(xs) >= 1 /\ IntSum(xs) = 0))
                => NonFinite(gi_data[k][2])

\* C15 amended: a non-empty column whose mean is 0 gives a non-finite
\* coefficient without an exception (NaN when all values are 0, infinite
\* otherwise); a single row with a non-zero value gives the finite
\* coefficient 0.
C15_GiniZeroMeanNonFinite ==
    \A k \in 1..Len(gi_data) :
        LET xs == GiniInput(k)
        IN  /\ (Len(xs) >= 1 /\ IntSum(xs) = 0) =>
                   /\ gi_pc # "raised"
                   /\ gi_data[k][2] = IF \A i \in 1..Len(xs) : xs[i] = 0 THEN NaN
                                      ELSE Inf(1)
            /\ (Len(xs) = 1 /\ xs[1] # 0) => gi_data[k][2] = N(0)

\* C15 witness: _gini returned an infinite coefficient for the column
\* -1, 1 of mean 0.
C15_Witness ==
    /\ gi_pc = "returned"
    /\ \E k \in 1..Len(gi_data) :
           /\ GiniInput(k) = <<-1, 1>>
           /\ gi_data[k][2] = Inf(1)

-----------------------------------------------------------------------------
\* Properties of find_config_by_id (checked under SpecFind).

\* the parent chain of a benchmark: its ids from the child up, and whether
\* it ends at a benchmark without parent ("ok"), at an id that is not
\* stored ("missing") or runs into a benchmark already on it ("cycle")
RECURSIVE ChainFrom(_, _)
ChainFrom(id, seen) ==
    IF id \in seen THEN [kind |-> "cycle", ids |-> <<>>]
    ELSE IF id \notin DOMAIN fc_store THEN [kind |-> "missing", ids |-> <<>>]
    ELSE LET doc == fc_store[id]
             linked == "parent" \in DOMAIN doc /\ doc["parent"] \notin {NoneStr, ""}
         IN  IF ~linked THEN [kind |-> "ok", ids |-> <<id>>]
             ELSE LET rest == ChainFrom(doc["parent"], seen \cup {id})
                  IN  [kind |-> rest.kind, ids |-> <<id>> \o rest.ids]

Chain == ChainFrom(fc_id, {})

\* what the i-th benchmark of the chain stores for a field of the config
StoredField(f, i) ==
    LET doc == fc_store[Chain.ids[i]]
        key == IF f = "id" THEN "_id" ELSE f
    IN  IF key \in DOMAIN doc THEN doc[key] ELSE NoneStr

\* the value of the nearest benchmark of the chain, from the child up, that
\* stores a non-null value for the field; None when none does
Overlaid(f) ==
    LET having == {i \in 1..Len(Chain.ids) : StoredField(f, i) # NoneStr}
    IN  IF having = {} THEN NoneStr
        ELSE StoredField(f, CHOOSE i \in having : \A j \in having : i <= j)

\* C19: for a finite acyclic parent chain find_config_by_id terminates; it
\* returns after one store lookup per benchmark of the chain, and every
\* field of the config returned is the child's non-null value laid over the
\* resolved parent's (the id is the child's own); for a chain with a cycle
\* it never returns.
C19_FindConfigResolvesChain ==
    /\ [](Chain.kind = "ok" => <>(fc_pc = "returned"))
    /\ [](fc_pc = "returned" =>
             /\ Chain.kind = "ok"
             /\ fc_lookups = Len(Chain.ids)
             /\ fc_out[1]["id"] = fc_id
             /\ \A f \in ConfigFields \ {"preferred_username"} :
                    fc_out[1][f] = Overlaid(f))
    /\ [](Chain.kind = "cycle" => fc_pc \notin {"returned", "aborted"})

\* C19 witness: a chain of three benchmarks was resolved with three lookups;
\* the name comes from the grandparent, the child and the parent storing
\* None for it.
C19_Witness ==
    /\ fc_pc = "returned"
    /\ Len(Chain.ids) = 3
    /\ fc_lookups = 3
    /\ StoredField("name", 1) = NoneStr
    /\ StoredField("name", 2) = NoneStr
    /\ fc_out[1]["name"] = Chain.ids[3]
    /\ fc_out[1]["parent"] = Chain.ids[2]

-----------------------------------------------------------------------------
\* Properties of concurrent generate_plots requests (checked under SpecRace).

\* the mappings a request running alone over the snapshot may return: it
\* finds no fresh file, replays the dates, writes the file and reads it back
IsolatedReturns ==
    {ReadBack([exists |-> TRUE, head |-> <<res.json>>, tail |-> <<res.json>>]).out[1] :
        res \in {x \in rc_outcomes : x.err = ""}}

\* C12: however the steps of the requests for one non-abstract benchmark
\* interleave over an unchanged snapshot, a request that returns returns a
\* complete mapping an isolated request returns; every request that writes
\* the file writes such a mapping, so whatever a half of the file holds is
\* half of that payload.
C12_RacingRequestsReturnIsolatedResult ==
    rc_config.type # "abstract" =>
        /\ \A r \in Requests :
               /\ rc_req[r].pc = "returned" =>
                      /\ Len(rc_req[r].out) = 1
                      /\ rc_req[r].out[1] \in IsolatedReturns
                      /\ DOMAIN rc_req[r].out[1] = SeriesNames(rc_config)
               /\ rc_req[r].pc \in {"open", "head", "tail"} =>
                      rc_req[r].json \in IsolatedReturns
        /\ \A half \in {rc_file.head, rc_file.tail} :
               half # <<>> => half[1] \in IsolatedReturns

\* C12 witness: both requests missed the cache and recomputed; the first
\* wrote the file and returned the mapping while the second had emptied the
\* file again and written half of it.
C12_Witness ==
    /\ rc_config.type # "abstract"
    /\ rc_config.views = PlotViews
    /\ Len(rc_sys_infos) = 2
    /\ rc_req[1].pc = "returned"
    /\ Len(rc_req[1].out[1]["mean"]) = 2
    /\ rc_req[2].pc = "tail"
    /\ rc_file.tail # <<>>

====
